---------------------------- MODULE Spec2Model ----------------------------
(***************************************************************************)
(* Pokemon-Emerald-Helper: the Lua engine that deploy_updates.py installs  *)
(* (Pointers.lua, ROMData.lua, BattleDisplay.lua, main.lua), and the       *)
(* parsePokemonData of the two servers (install_rom_upload.py,             *)
(* update_to_sni.py).                                                      *)
(*                                                                         *)
(* Lua tables are reference objects: a table created by getSaveBlock1 is   *)
(* held in `heap` and the cache, return values and consumers hold its      *)
(* slot.  Lua's nil is NilRef for a reference, ReadFail for the result of *)
(* a Memory read and NoPokemon for a decoded record.                       *)
(***************************************************************************)
EXTENDS Integers, Sequences, FiniteSets, TLC

VARIABLES
    frame,        \* emu.framecount()
    cache,        \* Pointers.lua: local cache
    heap,         \* the tables getSaveBlock1/getSaveBlock2 have created
    ret,          \* what the last Pointers call returned
    readLog,      \* addresses the last operation read through Memory
    lastOp,       \* the operation of the last step
    resolved,     \* per symbol: tick and structure of its last fresh resolution
    succeeded,    \* per symbol: tick and structure of its last successful call
    cleared,      \* the symbols not resolved since the last clearCache
    State,        \* main.lua: local State (frameCount, lastBattleCheck, currentBattle)
    console,      \* what the last checkBattle displayed
    checkRet,     \* what the last checkBattle returned to update()
    event,        \* what the last checkBattle did to State.currentBattle
    prevStatus,   \* the flag read of the check before the last one
    curStatus,    \* the flag read of the last check: fail, zero or nonzero
    pollFailed,   \* whether a Memory read of the last check failed
    consecFail,   \* consecutive checks with a failed read, counted up to 3
    quickRuns,    \* the runs of quickUpdate in the last step
    romData,      \* ROMData.lua: ROMData.data (the tables, patchInfo, initialized)
    rating,       \* the last calculateRandomizerTier call: its argument and result
    image,        \* the program image the Memory reads of ROMData.lua see
    romCall,      \* the last ROMData or Pointers call: what it read, raised and returned
    parsed,       \* the last parsePokemonData call of a server: input and result
    callArgs,     \* the arguments of the last address call; the bytes at addr for readPokemonString
    fs,           \* the project directory the Python scripts work on, and their last run
    Config,       \* main.lua: local Config (showBattleInfo)
    memFlags,     \* the battle flags the game holds, and the frame count they were set at
    romServer,    \* install_rom_upload.py, server/index.js: the globals, timers and socket
    sniServer     \* update_to_sni.py, server/index.js: the globals, timers and socket

resolverVars == <<frame, cache, heap, ret, readLog, lastOp, resolved, succeeded, cleared>>
battleVars ==
    <<State, console, checkRet, event, prevStatus, curStatus, pollFailed, consecFail,
      quickRuns>>
scoreVars == <<romData, rating>>
serverVars == <<romServer, sniServer>>
hostVars == <<fs, Config, memFlags, serverVars>>
auxVars == <<image, hostVars, romCall, parsed, callArgs>>
vars == <<resolverVars, battleVars, scoreVars, auxVars>>

---------------------------------------------------------------------------
(* Bounds of the model *)

\* Ticks are sampled around multiples of the cache lifetime, up to MaxPeriods.
MaxPeriods == 1

---------------------------------------------------------------------------
(* Pointers.lua *)

NilRef == 0
ReadFail == -1

EWRAM_START == 33554432    \* 0x02000000
EWRAM_END == 33816576      \* 0x02040000
CACHE_LIFETIME == 300

addresses ==
    [ gSaveBlock1 |-> 50352136,
      gSaveBlock2 |-> 50352140,
      gSaveBlock2PTR |-> 50352144,
      gPlayerParty |-> 50348896,
      gEnemyParty |-> 50349504,
      gBattleMons |-> 50348836,
      gBattleTypeFlags |-> 33697772,
      gBattleMainFunc |-> 50348800,
      gBattleResults |-> 50348824,
      gBattleScriptingBank |-> 33701828,
      gBattleStructPtr |-> 33701876,
      gEnemyMonIndex |-> 33701228,
      gActiveBattler |-> 33700804,
      gBattlersCount |-> 33700805,
      gMain |-> 50340544,
      gTasks |-> 50352272,
      gSprites |-> 50361376,
      gSpecialVar_0x8000 |-> 50350108,
      gSpecialVar_0x8001 |-> 50350110,
      gSpecialVar_0x8002 |-> 50350112,
      gSpecialVar_0x8003 |-> 50350114,
      gSpecialVar_0x8004 |-> 50350116,
      gSpecialVar_0x8005 |-> 50350118,
      gSpecialVar_0x8006 |-> 50350120,
      gSpecialVar_0x8007 |-> 50350122,
      gSpecialVar_Result |-> 50350108,
      gDMA3SAD |-> 50331860,
      gDMA3DAD |-> 50331864,
      gDMA3CNT |-> 50331868,
      gRngValue |-> 50352128,
      gMapHeader |-> 50352140,
      gObjectEvents |-> 50350304 ]

saveBlock1Offsets ==
    [ playerName |-> 0,
      playerGender |-> 8,
      playerTrainerId |-> 10,
      playerSecretId |-> 12,
      playTimeHours |-> 14,
      playTimeFrames |-> 16,
      options |-> 20,
      teamAndItems |-> 564,
      teamCount |-> 564,
      teamPokemon |-> 568,
      money |-> 1168,
      coins |-> 1172,
      pcItems |-> 1176,
      itemPocket |-> 1376,
      keyItemPocket |-> 1456,
      ballPocket |-> 1536,
      tmCase |-> 1600,
      berryPocket |-> 1856,
      rivalName |-> 3020,
      mapDataSize |-> 2504,
      mapData |-> 3172,
      flags |-> 4640,
      vars |-> 4928,
      gameStats |-> 5440,
      pcBoxes |-> 19844 ]

saveBlock2Offsets ==
    [ encryptionKey |-> 0,
      pokedexOwned |-> 24,
      pokedexSeen |-> 68 ]

\* What Memory.read_u32_le may give at an anchor: nil, or a 32-bit value,
\* sampled at and around the ends of the accepted interval.  The largest
\* sample is 0x7FFFFFFF, the largest integer TLC represents: every value from
\* EWRAM_END to 0xFFFFFFFF takes the same branch of readPointer.
PointerReads ==
    { ReadFail, 0, EWRAM_START - 1, EWRAM_START, EWRAM_END - 1, EWRAM_END,
      2147483647 }

\* The ticks at which the engine is entered: the first and the last tick of
\* each cache lifetime, and tick 1.
Frames ==
    { k * CACHE_LIFETIME + d : k \in 0..MaxPeriods, d \in {0, CACHE_LIFETIME - 1} }
        \cup {1}

\* A call's result: kind "nil" (with err), "ptr" (val a pointer) or "obj"
\* (val the index in heap of the table returned).
NilResult(e) == [kind |-> "nil", val |-> 0, err |-> e]
PtrResult(p) == [kind |-> "ptr", val |-> p, err |-> "none"]
ObjResult(o) == [kind |-> "obj", val |-> o, err |-> "none"]

\* readPointer: lines 136-153; `pointer` is what Memory.read_u32_le returned.
ReadPointerMutNoUpper(name, pointer) ==
    IF name \notin DOMAIN addresses THEN NilResult("Unknown pointer")
    ELSE IF pointer = ReadFail THEN NilResult("Failed to read pointer")
    ELSE IF pointer < EWRAM_START THEN NilResult("Invalid pointer value")
    ELSE PtrResult(pointer)

ReadPointer(name, pointer) ==
    IF name \notin DOMAIN addresses THEN NilResult("Unknown pointer")
    ELSE IF pointer = ReadFail THEN NilResult("Failed to read pointer")
    ELSE IF pointer < EWRAM_START \/ pointer >= EWRAM_END
         THEN NilResult("Invalid pointer value")
    ELSE PtrResult(pointer)

\* The Memory reads readPointer performs: none for an unknown name.
ReadPointerReads(name) ==
    IF name \in DOMAIN addresses THEN <<addresses[name]>> ELSE <<>>

\* The table built at lines 171-196.
MakeSaveBlock1(ptr) ==
    [ pointer |-> ptr,
      playerName |-> ptr + saveBlock1Offsets.playerName,
      playerGender |-> ptr + saveBlock1Offsets.playerGender,
      playerTrainerId |-> ptr + saveBlock1Offsets.playerTrainerId,
      playerSecretId |-> ptr + saveBlock1Offsets.playerSecretId,
      playTimeHours |-> ptr + saveBlock1Offsets.playTimeHours,
      playTimeFrames |-> ptr + saveBlock1Offsets.playTimeFrames,
      teamAndItems |-> ptr + saveBlock1Offsets.teamAndItems,
      teamCount |-> ptr + saveBlock1Offsets.teamCount,
      teamPokemon |-> ptr + saveBlock1Offsets.teamPokemon,
      money |-> ptr + saveBlock1Offsets.money,
      coins |-> ptr + saveBlock1Offsets.coins,
      pcItems |-> ptr + saveBlock1Offsets.pcItems,
      itemPocket |-> ptr + saveBlock1Offsets.itemPocket,
      keyItemPocket |-> ptr + saveBlock1Offsets.keyItemPocket,
      ballPocket |-> ptr + saveBlock1Offsets.ballPocket,
      tmCase |-> ptr + saveBlock1Offsets.tmCase,
      berryPocket |-> ptr + saveBlock1Offsets.berryPocket,
      rivalName |-> ptr + saveBlock1Offsets.rivalName,
      flags |-> ptr + saveBlock1Offsets.flags,
      vars |-> ptr + saveBlock1Offsets.vars,
      gameStats |-> ptr + saveBlock1Offsets.gameStats,
      pcBoxes |-> ptr + saveBlock1Offsets.pcBoxes ]

\* The table built at lines 221-226.
MakeSaveBlock2(ptr) ==
    [ pointer |-> ptr,
      encryptionKey |-> ptr + saveBlock2Offsets.encryptionKey,
      pokedexOwned |-> ptr + saveBlock2Offsets.pokedexOwned,
      pokedexSeen |-> ptr + saveBlock2Offsets.pokedexSeen ]

\* The cache check of lines 160 and 210.
CacheHitMutShortTTL(entry, c, currentFrame) ==
    entry # NilRef /\ (currentFrame - c.lastCacheTime) < CACHE_LIFETIME - 1

CacheHit(entry, c, currentFrame) ==
    entry # NilRef /\ (currentFrame - c.lastCacheTime) < CACHE_LIFETIME

\* Lua collects a table nothing refers to.  A table is referred to by a cache
\* entry or by the caller that received it last, so two slots hold every live
\* table; a new table takes the slot the other cache entry does not use.
FreeSlot == [free |-> TRUE]
Slots == {1, 2}
NewSlot(otherEntry) == IF otherEntry = 1 THEN 2 ELSE 1
Collect(h, live) == [i \in Slots |-> IF i \in live THEN h[i] ELSE FreeSlot]

\* getSaveBlock1 (lines 156-203) as a function of the cache `c`, the heap `h`,
\* the tick and what the anchor read gives if it is made.  The result names
\* the new cache and heap, the value returned, the reads performed and
\* whether the anchor was resolved afresh.
GetSaveBlock1MutStampFirst(c, h, currentFrame, pointer) ==
    IF CacheHit(c.saveBlock1, c, currentFrame)
    THEN [cache |-> c, heap |-> h, ret |-> ObjResult(c.saveBlock1),
          reads |-> <<>>, fresh |-> FALSE]
    ELSE LET r == ReadPointer("gSaveBlock1", pointer)
             o == NewSlot(c.saveBlock2) IN
         IF r.kind = "nil"
         THEN [cache |-> [c EXCEPT !.lastCacheTime = currentFrame], heap |-> h,
               ret |-> r, reads |-> ReadPointerReads("gSaveBlock1"),
               fresh |-> FALSE]
         ELSE [cache |-> [c EXCEPT !.saveBlock1 = o,
                                   !.lastCacheTime = currentFrame],
               heap |-> [h EXCEPT ![o] = MakeSaveBlock1(r.val)],
               ret |-> ObjResult(o),
               reads |-> ReadPointerReads("gSaveBlock1"), fresh |-> TRUE]

GetSaveBlock1Call(c, h, currentFrame, pointer) ==
    IF CacheHit(c.saveBlock1, c, currentFrame)
    THEN [cache |-> c, heap |-> h, ret |-> ObjResult(c.saveBlock1),
          reads |-> <<>>, fresh |-> FALSE]
    ELSE LET r == ReadPointer("gSaveBlock1", pointer)
             o == NewSlot(c.saveBlock2) IN
         IF r.kind = "nil"
         THEN [cache |-> c, heap |-> h, ret |-> r,
               reads |-> ReadPointerReads("gSaveBlock1"), fresh |-> FALSE]
         ELSE [cache |-> [c EXCEPT !.saveBlock1 = o,
                                   !.lastCacheTime = currentFrame],
               heap |-> [h EXCEPT ![o] = MakeSaveBlock1(r.val)],
               ret |-> ObjResult(o),
               reads |-> ReadPointerReads("gSaveBlock1"), fresh |-> TRUE]

\* getSaveBlock2 (lines 206-233).
GetSaveBlock2Call(c, h, currentFrame, pointer) ==
    IF CacheHit(c.saveBlock2, c, currentFrame)
    THEN [cache |-> c, heap |-> h, ret |-> ObjResult(c.saveBlock2),
          reads |-> <<>>, fresh |-> FALSE]
    ELSE LET r == ReadPointer("gSaveBlock2", pointer)
             o == NewSlot(c.saveBlock1) IN
         IF r.kind = "nil"
         THEN [cache |-> c, heap |-> h, ret |-> r,
               reads |-> ReadPointerReads("gSaveBlock2"), fresh |-> FALSE]
         ELSE [cache |-> [c EXCEPT !.saveBlock2 = o,
                                   !.lastCacheTime = currentFrame],
               heap |-> [h EXCEPT ![o] = MakeSaveBlock2(r.val)],
               ret |-> ObjResult(o),
               reads |-> ReadPointerReads("gSaveBlock2"), fresh |-> TRUE]

\* getPartyPokemonAddress resolving SaveBlock1 before it checks the slot.
GetPartyPokemonAddressMutLateCheck(c, h, currentFrame, slot, pointer) ==
    LET sb == GetSaveBlock1Call(c, h, currentFrame, pointer) IN
    IF slot < 0 \/ slot > 5
    THEN [sb EXCEPT !.ret = NilResult("Invalid slot")]
    ELSE IF sb.ret.kind # "obj"
    THEN [sb EXCEPT !.ret = NilResult("Failed to get SaveBlock1")]
    ELSE [sb EXCEPT !.ret = PtrResult(sb.heap[sb.ret.val].teamPokemon + slot * 100)]

\* getPartyPokemonAddress (lines 268-280).
GetPartyPokemonAddress(c, h, currentFrame, slot, pointer) ==
    IF slot < 0 \/ slot > 5
    THEN [cache |-> c, heap |-> h, ret |-> NilResult("Invalid slot"),
          reads |-> <<>>, fresh |-> FALSE]
    ELSE LET sb == GetSaveBlock1Call(c, h, currentFrame, pointer) IN
         IF sb.ret.kind # "obj"
         THEN [sb EXCEPT !.ret = NilResult("Failed to get SaveBlock1")]
         ELSE [sb EXCEPT !.ret =
                 PtrResult(sb.heap[sb.ret.val].teamPokemon + slot * 100)]

\* getPCBoxAddress (lines 283-302).
GetPCBoxAddress(c, h, currentFrame, box, slot, pointer) ==
    IF box < 0 \/ box > 13
    THEN [cache |-> c, heap |-> h, ret |-> NilResult("Invalid box"),
          reads |-> <<>>, fresh |-> FALSE]
    ELSE IF slot < 0 \/ slot > 29
    THEN [cache |-> c, heap |-> h, ret |-> NilResult("Invalid slot"),
          reads |-> <<>>, fresh |-> FALSE]
    ELSE LET sb == GetSaveBlock1Call(c, h, currentFrame, pointer) IN
         IF sb.ret.kind # "obj"
         THEN [sb EXCEPT !.ret = NilResult("Failed to get SaveBlock1")]
         ELSE [sb EXCEPT !.ret =
                 PtrResult(sb.heap[sb.ret.val].pcBoxes + box * 30 * 80 + slot * 80)]

\* clearCache (lines 236-240).
ClearedCacheMutKeepBlock2(c) ==
    [c EXCEPT !.saveBlock1 = NilRef, !.lastCacheTime = 0]

ClearedCache(c) ==
    [saveBlock1 |-> NilRef, saveBlock2 |-> NilRef, lastCacheTime |-> 0]

---------------------------------------------------------------------------
(* Histories and live tables *)

\* The tables still referred to: by the cache and by the last caller.
Live(c, r) ==
    ({c.saveBlock1, c.saveBlock2} \cup (IF r.kind = "obj" THEN {r.val} ELSE {}))
        \ {NilRef}

Symbols == {"gSaveBlock1", "gSaveBlock2"}
Getter == [gSaveBlock1 |-> "getSaveBlock1", gSaveBlock2 |-> "getSaveBlock2"]

NoRecord == [at |-> -1, struct |-> [pointer |-> 0]]

\* The history a call of `sym` leaves, given its result `res`.
Recorded(hist, sym, res, onlyFresh) ==
    IF res.ret.kind = "obj" /\ (res.fresh \/ ~onlyFresh)
    THEN [hist EXCEPT ![sym] = [at |-> frame, struct |-> res.heap[res.ret.val]]]
    ELSE hist

---------------------------------------------------------------------------
(* ROMData.lua: the randomizer tier *)

\* The species table holds the ids 0..MaxSpeciesId.
MaxSpeciesId == 0

\* The last attacking type of the loop at line 946.
LastAttackType == 17

Min(a, b) == IF a < b THEN a ELSE b
Max(a, b) == IF a > b THEN a ELSE b

\* ROMData.data before ROMData.init has run (lines 506-516); <<>> stands
\* for a table that is still nil.
NoTables ==
    [ initialized |-> FALSE, pokemon |-> <<>>, moves |-> <<>>, items |-> <<>>,
      abilities |-> <<>>, natures |-> <<>>, types |-> <<>>, typeChart |-> <<>>,
      patchInfo |-> "nil" ]

NoRating == [id |-> -1, result |-> [tier |-> "none"]]

InitROMData ==
    /\ romData = NoTables
    /\ rating = NoRating

\* A species entry whose base stat total is kept in eight bits.
SpeciesEntryMutByteTotal(hp, attack, defense, speed, spAttack, spDefense, type1, type2) ==
    [ stats |-> [hp |-> hp, attack |-> attack, defense |-> defense,
                 speed |-> speed, spAttack |-> spAttack, spDefense |-> spDefense],
      type1 |-> type1,
      type2 |-> type2,
      bst |-> (hp + attack + defense + speed + spAttack + spDefense) % 256 ]

\* A species entry as loadPokemonData builds it (lines 553-602): the six
\* base stats, the two types and the base stat total of lines 599-600.
\* The fields the tier rating does not read are left out.
SpeciesEntry(hp, attack, defense, speed, spAttack, spDefense, type1, type2) ==
    [ stats |-> [hp |-> hp, attack |-> attack, defense |-> defense,
                 speed |-> speed, spAttack |-> spAttack, spDefense |-> spDefense],
      type1 |-> type1,
      type2 |-> type2,
      bst |-> hp + attack + defense + speed + spAttack + spDefense ]

\* The entries the tables are drawn from: low and high base stats (each an
\* unsigned byte) and the types Normal, Normal/Flying and ??? (type 9).
SampleEntries ==
    { SpeciesEntry(hp, attack, defense, speed, 0, spDefense, t[1], t[2]) :
        hp \in {1, 255}, attack \in {0, 100}, defense \in {5, 200},
        speed \in {5, 200}, spDefense \in {5, 200},
        t \in {<<0, 0>>, <<0, 2>>, <<9, 9>>} }

\* The type charts the store is drawn from, as loadTypeChart leaves them
\* (lines 767-793): data[attacker][defender] = effectiveness, given here as
\* a function on the pairs that have a record.  The second holds the records
\* of the game that attack Normal and Flying; the third holds an attacker
\* with two halves, one with two doubles, one immunity, a byte of 40 and a
\* record of attacker 18, which the score does not look at.
SampleCharts ==
    { <<>>,
      (<<1, 0>> :> 20) @@ (<<7, 0>> :> 0) @@ (<<1, 2>> :> 5) @@ (<<4, 2>> :> 0)
        @@ (<<5, 2>> :> 20) @@ (<<6, 2>> :> 5) @@ (<<12, 2>> :> 5)
        @@ (<<13, 2>> :> 20) @@ (<<15, 2>> :> 20),
      (<<1, 0>> :> 5) @@ (<<1, 2>> :> 5) @@ (<<3, 0>> :> 20) @@ (<<3, 2>> :> 20)
        @@ (<<4, 0>> :> 0) @@ (<<4, 2>> :> 20) @@ (<<5, 2>> :> 40)
        @@ (<<18, 0>> :> 20) }

\* typeChart[atkType] and typeChart[atkType][defType] (lines 950, 955).
HasMatchup(chart, atkType, defType) == <<atkType, defType>> \in DOMAIN chart

\* The effectiveness looked up against the first defending type alone.
EffectivenessTimes10MutFirstTypeOnly(chart, atkType, type1, type2) ==
    IF HasMatchup(chart, atkType, type1)
    THEN chart[<<atkType, type1>>] * 10 ELSE 100

\* The effectiveness of lines 947-958 times 10: a single multiplier m is
\* 10 * m, the combined multiplier (m1 * m2) / 10 is m1 * m2.
EffectivenessTimes10(chart, atkType, type1, type2) ==
    LET e1 == IF HasMatchup(chart, atkType, type1)
              THEN chart[<<atkType, type1>>] ELSE 10
    IN  IF type2 # type1 /\ HasMatchup(chart, atkType, type2)
        THEN e1 * chart[<<atkType, type2>>]
        ELSE e1 * 10

\* The counts of lines 960-966 over the attacking types 0..17.
TypeCounts(chart, type1, type2) ==
    LET eff(a) == EffectivenessTimes10(chart, a, type1, type2)
        atk == 0..LastAttackType
    IN  [ weaknesses |-> Cardinality({a \in atk : eff(a) > 100}),
          resistances |-> Cardinality({a \in atk : eff(a) < 100 /\ eff(a) > 0}),
          immunities |-> Cardinality({a \in atk : eff(a) = 0}) ]

\* calculateTypeDefensiveScore (lines 938-971) times 100: 0.5 + 0.05 per
\* resistance + 0.1 per immunity - 0.08 per weakness, clamped to [0, 1].
CalculateTypeDefensiveScore100(type1, type2) ==
    IF ~romData.initialized THEN 50
    ELSE LET n == TypeCounts(romData.typeChart, type1, type2) IN
         Min(100, Max(0, 50 + n.resistances * 5 + n.immunities * 10
                            - n.weaknesses * 8))

\* The weighted total of lines 896-902 in exact arithmetic, times 6800 (the
\* common denominator of the five terms):
\*   bstScore * 0.30     = min(bst, 600) / 20     = 340 * min(bst, 600) / 6800
\*   hpScore * 0.20      = hp * 30 / 255          = 800 * hp / 6800
\*   speedScore * 0.15   = speed * 19.5 / 200     = 663 * speed / 6800
\*   defenseScore * 0.20 = (def + spDef) * 24/400 = 408 * (def + spDef) / 6800
\*   typeScore * 0.15    = type100 * 0.15         = 1020 * type100 / 6800
TotalScore6800(pokemon) ==
    340 * Min(pokemon.bst, 600)
        + 800 * pokemon.stats.hp
        + 663 * pokemon.stats.speed
        + 408 * (pokemon.stats.defense + pokemon.stats.spDefense)
        + 1020 * CalculateTypeDefensiveScore100(pokemon.type1, pokemon.type2)

\* getPokemon (lines 974-977) on a loaded store: the entry, or nil (here the
\* absence of the id from the table).
HasPokemon(species) == species \in DOMAIN romData.pokemon

\* calculateRandomizerTier with the tier decided on the total rounded to the
\* nearest integer instead of the total itself.
CalculateRandomizerTierMutRounded(pokemonId) ==
    IF ~HasPokemon(pokemonId) THEN [tier |-> "none"]
    ELSE LET pokemon == romData.pokemon[pokemonId]
             total == TotalScore6800(pokemon)
             rounded == ((total + 3400) \div 6800) * 6800
             tier == IF rounded >= 90 * 6800 THEN "S"
                     ELSE IF rounded >= 75 * 6800 THEN "A"
                     ELSE IF rounded >= 60 * 6800 THEN "B"
                     ELSE IF rounded >= 45 * 6800 THEN "C"
                     ELSE "D"
             stars == CASE tier = "S" -> 5 [] tier = "A" -> 4 [] tier = "B" -> 3
                        [] tier = "C" -> 2 [] OTHER -> 1
         IN  [ tier |-> tier,
               stars |-> stars,
               score |-> total \div 6800,
               details |->
                 [ bst |-> (Min(pokemon.bst, 600) * 100) \div 600,
                   hp |-> (pokemon.stats.hp * 150) \div 255,
                   speed |-> (pokemon.stats.speed * 130) \div 200,
                   defense |-> ((pokemon.stats.defense + pokemon.stats.spDefense) * 120)
                                  \div 400,
                   typing |-> CalculateTypeDefensiveScore100(pokemon.type1,
                                                             pokemon.type2) ] ]

\* calculateRandomizerTier (lines 876-935); [tier |-> "none"] stands for nil.
CalculateRandomizerTier(pokemonId) ==
    IF ~HasPokemon(pokemonId) THEN [tier |-> "none"]
    ELSE LET pokemon == romData.pokemon[pokemonId]
             total == TotalScore6800(pokemon)
             tier == IF total >= 90 * 6800 THEN "S"
                     ELSE IF total >= 75 * 6800 THEN "A"
                     ELSE IF total >= 60 * 6800 THEN "B"
                     ELSE IF total >= 45 * 6800 THEN "C"
                     ELSE "D"
             stars == CASE tier = "S" -> 5 [] tier = "A" -> 4 [] tier = "B" -> 3
                        [] tier = "C" -> 2 [] OTHER -> 1
         IN  [ tier |-> tier,
               stars |-> stars,
               score |-> total \div 6800,
               details |->
                 [ bst |-> (Min(pokemon.bst, 600) * 100) \div 600,
                   hp |-> (pokemon.stats.hp * 150) \div 255,
                   speed |-> (pokemon.stats.speed * 130) \div 200,
                   defense |-> ((pokemon.stats.defense + pokemon.stats.spDefense) * 120)
                                  \div 400,
                   typing |-> CalculateTypeDefensiveScore100(pokemon.type1,
                                                             pokemon.type2) ] ]

\* A loaded store: ROMData.init has run (lines 519-542) over some image.
InitLoaded ==
    /\ romData \in [ initialized : {TRUE},
                     pokemon : [0..MaxSpeciesId -> SampleEntries],
                     typeChart : SampleCharts ]
    /\ rating = NoRating

---------------------------------------------------------------------------
(* ROMData.lua: loading the reference tables *)

\* Records of the type chart a program image may hold before its sentinel.
MaxChartRecords == 2

\* The last index of each table (lines 550, 623, 669, 700, 724, 758).
LastSpeciesId == 410
LastMoveId == 354
LastItemId == 376
LastAbilityId == 77
LastNatureId == 24
LastTypeId == 17

\* Attacker and defender byte of the record that ends the chart (line 779).
CHART_SENTINEL == 254

\* The regions of ROMData.addresses the loaders read, by table, in the
\* order each loader reads them.
TableRegions ==
    [ pokemon |-> <<"pokemonStats", "pokemonNames">>,
      moves |-> <<"moveData", "moveNames">>,
      items |-> <<"itemData">>,
      abilities |-> <<"abilityNames">>,
      natures |-> <<"natureNames">>,
      types |-> <<"typeNames">>,
      typeChart |-> <<"typeEffectiveness">> ]

\* The tables in the order ROMData.init loads them (lines 527-533).
LoadOrder ==
    <<"pokemon", "moves", "items", "abilities", "natures", "types", "typeChart">>

Regions == UNION {{TableRegions[t][k] : k \in DOMAIN TableRegions[t]} : t \in DOMAIN TableRegions}

\* The three places detectPatch looks at (lines 840-842).
PatchPlaces == <<"0x08F00000", "0x08E00000", "0x08D00000">>

\* A program image: the regions whose reads fail, the 8-byte rows of base
\* stats and types (repeated over the species), the records of the type
\* chart, what the memory after them holds ("sentinel": a sentinel record;
\* "bytes": readable bytes with no sentinel record among them; "nil":
\* addresses whose reads fail), and what is found at the three patch
\* places: "FF" (empty), "ARCH", "RAND", "other".
BaseRows == << <<45, 49, 49, 45, 65, 65, 12, 3>>, <<255, 0, 200, 200, 0, 200, 9, 9>> >>

BaseImage ==
    [ unreadable |-> {},
      rows |-> BaseRows,
      chart |-> << <<1, 0, 20>>, <<7, 0, 0>> >>,
      tail |-> "sentinel",
      patch |-> [p \in {1, 2, 3} |-> "FF"] ]

ChartRecords ==
    { <<0, 0, 0>>, <<0, 0, 40>>, <<CHART_SENTINEL, CHART_SENTINEL, 0>> }

ChartStreams ==
    UNION {[1..n -> ChartRecords] : n \in 0..MaxChartRecords}

PatchSamples ==
    { [p \in {1, 2, 3} |-> "FF"],
      [p \in {1, 2, 3} |-> IF p = 1 THEN "ARCH" ELSE "FF"],
      [p \in {1, 2, 3} |-> IF p = 1 THEN "RAND" ELSE IF p = 2 THEN "RAND" ELSE "FF"],
      [p \in {1, 2, 3} |-> IF p = 3 THEN "other" ELSE "FF"] }

\* The images drawn: the base image with one thing varied at a time.
Images ==
    {[BaseImage EXCEPT !.chart = c] : c \in ChartStreams}
        \cup {[BaseImage EXCEPT !.unreadable = {r}] : r \in Regions}
        \cup {[BaseImage EXCEPT !.rows = << <<1, 2, 3, 4, 5, 6, 0, 0>> >>]}
        \cup {[BaseImage EXCEPT !.rows = << <<255, 255, 255, 255, 255, 255, 0, 0>>,
                                            <<0, 0, 0, 0, 0, 0, 0, 0>> >>]}
        \cup {[BaseImage EXCEPT !.patch = x] : x \in PatchSamples}
        \cup {[BaseImage EXCEPT !.tail = x] : x \in {"bytes", "nil"}}
        \cup {[BaseImage EXCEPT !.tail = "bytes",
                                !.chart = << <<0, 0, 40>>,
                                             <<CHART_SENTINEL, CHART_SENTINEL, 0>> >>]}

Readable(img, region) == region \notin img.unreadable

\* The row of species i in the image.
RowOf(img, i) == img.rows[(i % Len(img.rows)) + 1]

\* A decoded name stands for the string readPokemonString returns.
NameOf(region, i) == <<region, i>>

\* loadPokemonData decoding the first row for every species of an image
\* that carries the Archipelago signature.
LoadPokemonDataMutPatched(img) ==
    [ i \in 0..LastSpeciesId |->
        LET r == RowOf(img, IF img.patch[1] = "ARCH" THEN 0 ELSE i) IN
        SpeciesEntry(r[1], r[2], r[3], r[4], r[5], r[6], r[7], r[8]) ]

\* loadPokemonData (lines 545-615) over readable regions.
LoadPokemonData(img) ==
    [ i \in 0..LastSpeciesId |->
        LET r == RowOf(img, i) IN
        SpeciesEntry(r[1], r[2], r[3], r[4], r[5], r[6], r[7], r[8]) ]

\* loadMoveData (lines 618-661), loadItemData (664-692), loadAbilityNames
\* (695-706), loadNatureData (709-750) and loadTypeNames (753-764) over
\* readable regions; of an entry only the name is kept.
LoadNames(region, last) == [i \in 0..last |-> [name |-> NameOf(region, i)]]

\* loadTypeChart (lines 767-793): the records before the first sentinel
\* record, a later record for a pair replacing an earlier one.
\* The text encoding of readPokemonString (lines 803-830): the characters a
\* byte adds to the string; a byte outside the mapping adds none.
UpperCase ==
    << "A", "B", "C", "D", "E", "F", "G", "H", "I", "J", "K", "L", "M",
       "N", "O", "P", "Q", "R", "S", "T", "U", "V", "W", "X", "Y", "Z" >>

LowerCase ==
    << "a", "b", "c", "d", "e", "f", "g", "h", "i", "j", "k", "l", "m",
       "n", "o", "p", "q", "r", "s", "t", "u", "v", "w", "x", "y", "z" >>

Digits == << "0", "1", "2", "3", "4", "5", "6", "7", "8", "9" >>

STRING_TERMINATOR == 255

\* What Memory.read_u8 gives for an address it cannot read (nil).
NoByte == -1

CharsOf(char) ==
    IF char = 0 THEN <<" ">>
    ELSE IF char >= 187 /\ char <= 212 THEN <<UpperCase[char - 187 + 1]>>
    ELSE IF char >= 213 /\ char <= 238 THEN <<LowerCase[char - 213 + 1]>>
    ELSE IF char >= 161 /\ char <= 170 THEN <<Digits[char - 161 + 1]>>
    ELSE IF char = 174 THEN <<"-">>
    ELSE IF char = 175 THEN <<".">>
    ELSE IF char = 176 THEN <<".", ".", ".">>
    ELSE IF char = 177 THEN <<"\"">>
    ELSE IF char = 178 THEN <<"\"">>
    ELSE IF char = 179 THEN <<"'">>
    ELSE IF char = 180 THEN <<"'">>
    ELSE IF char = 181 THEN <<"M">>
    ELSE IF char = 182 THEN <<"F">>
    ELSE IF char = 186 THEN <<"e">>
    ELSE <<>>

\* The loop of readPokemonString from offset i to offset last (lines
\* 798-832) over the bytes found from addr on (bytes[i + 1] is the byte at
\* addr + i): the string built, the offsets read in order, and whether a
\* comparison raised on a nil read (line 805).
RECURSIVE ReadPokemonStringFrom(_, _, _, _, _)
ReadPokemonStringFrom(bytes, last, i, str, reads) ==
    IF i > last THEN [str |-> str, reads |-> reads, raised |-> FALSE]
    ELSE LET char == bytes[i + 1] IN
         IF char = STRING_TERMINATOR
         THEN [str |-> str, reads |-> Append(reads, i), raised |-> FALSE]
         ELSE IF char = NoByte
         THEN [str |-> str, reads |-> Append(reads, i), raised |-> TRUE]
         ELSE ReadPokemonStringFrom(bytes, last, i + 1, str \o CharsOf(char),
                                    Append(reads, i))

ReadPokemonStringMutInclusive(bytes, maxLength) ==
    ReadPokemonStringFrom(bytes, maxLength, 0, <<>>, <<>>)

\* ROMData.readPokemonString(addr, maxLength) (lines 796-834).
ReadPokemonString(bytes, maxLength) ==
    ReadPokemonStringFrom(bytes, maxLength - 1, 0, <<>>, <<>>)

RECURSIVE LoadTypeChartFromMutPastSentinel(_, _, _)
LoadTypeChartFromMutPastSentinel(stream, k, data) ==
    IF k > Len(stream) THEN data
    ELSE LET rec == stream[k] IN
         LoadTypeChartFromMutPastSentinel(stream, k + 1,
             [p \in DOMAIN data \cup {<<rec[1], rec[2]>>} |->
                IF p = <<rec[1], rec[2]>> THEN rec[3] ELSE data[p]])

RECURSIVE LoadTypeChartFrom(_, _, _)
LoadTypeChartFrom(stream, k, data) ==
    IF k > Len(stream) THEN data
    ELSE LET rec == stream[k] IN
         IF rec[1] = CHART_SENTINEL /\ rec[2] = CHART_SENTINEL THEN data
         ELSE LoadTypeChartFrom(stream, k + 1,
                 [p \in DOMAIN data \cup {<<rec[1], rec[2]>>} |->
                    IF p = <<rec[1], rec[2]>> THEN rec[3] ELSE data[p]])

LoadTypeChart(img) == LoadTypeChartFrom(img.chart, 1, <<>>)

\* The number of 3-byte records the loop of lines 773-790 reads from the
\* k-th record on, the record it stops at included; past the records of
\* the image it is the first record of the tail.
RECURSIVE RecordsReadFrom(_, _)
RecordsReadFrom(stream, k) ==
    IF k > Len(stream) THEN k
    ELSE IF stream[k][1] = CHART_SENTINEL /\ stream[k][2] = CHART_SENTINEL THEN k
    ELSE RecordsReadFrom(stream, k + 1)

HasSentinel(img) ==
    \/ RecordsReadFrom(img.chart, 1) <= Len(img.chart)
    \/ img.tail = "sentinel"

\* The loop of loadTypeChart has no exit but the sentinel record (line 779):
\* over readable bytes that hold none it does not end.
Diverges(img) ==
    /\ Readable(img, "typeEffectiveness")
    /\ ~HasSentinel(img)
    /\ img.tail = "bytes"

\* The records loadTypeChart reads: one when the region is unreadable (the
\* nil attacker raises at line 785).
ChartRecordsRead(img) ==
    IF Readable(img, "typeEffectiveness") THEN RecordsReadFrom(img.chart, 1) ELSE 1

\* What a loader returns over readable regions.
LoadTable(img, t) ==
    CASE t = "pokemon" -> LoadPokemonData(img)
      [] t = "moves" -> LoadNames("moveNames", LastMoveId)
      [] t = "items" -> LoadNames("itemData", LastItemId)
      [] t = "abilities" -> LoadNames("abilityNames", LastAbilityId)
      [] t = "natures" -> LoadNames("natureNames", LastNatureId)
      [] t = "types" -> LoadNames("typeNames", LastTypeId)
      [] t = "typeChart" -> LoadTypeChart(img)

\* detectPatch (lines 837-873): the type of the patch found, "nil" if none,
\* and the places it read.
DetectPatch(img) ==
    IF img.patch[1] = "ARCH"
    THEN [patchInfo |-> "Archipelago", reads |-> SubSeq(PatchPlaces, 1, 1)]
    ELSE IF img.patch[2] = "RAND"
    THEN [patchInfo |-> "Randomizer", reads |-> SubSeq(PatchPlaces, 1, 2)]
    ELSE IF img.patch[3] # "FF"
    THEN [patchInfo |-> "Custom", reads |-> PatchPlaces]
    ELSE [patchInfo |-> "nil", reads |-> PatchPlaces]

\* The regions a loader reads up to and including the first whose reads
\* fail: a nil read raises a Lua error at its first use (the sum of line
\* 599, band at line 641, the comparison of line 805 in readPokemonString,
\* the nil index of line 785).
ReadsOf(img, t) ==
    LET rs == TableRegions[t]
        bad == {k \in DOMAIN rs : ~Readable(img, rs[k])}
    IN  IF bad = {} THEN rs
        ELSE SubSeq(rs, 1, CHOOSE k \in bad : \A j \in bad : k <= j)

\* A load raises over an unreadable region, and loadTypeChart when it runs
\* off the records into addresses whose reads fail.
Raises(img, t) ==
    \/ \E k \in DOMAIN TableRegions[t] : ~Readable(img, TableRegions[t][k])
    \/ t = "typeChart" /\ ~HasSentinel(img) /\ img.tail = "nil"

\* The body of ROMData.init from its k-th load on (lines 527-541): what it
\* leaves in the store, the regions it read, whether it raised, whether it
\* did not return (`diverged`), the records of the type chart it read and
\* what it returned.
RECURSIVE LoadAllFrom(_, _, _, _)
LoadAllFrom(data, img, k, reads) ==
    IF k > Len(LoadOrder)
    THEN LET patch == DetectPatch(img) IN
         [ data |-> [data EXCEPT !.patchInfo = patch.patchInfo, !.initialized = TRUE],
           reads |-> reads \o patch.reads, raised |-> FALSE, diverged |-> FALSE,
           chartRead |-> ChartRecordsRead(img), result |-> "true" ]
    ELSE LET t == LoadOrder[k]
             chartRead == IF t = "typeChart" THEN ChartRecordsRead(img) ELSE 0
         IN
         IF Raises(img, t)
         THEN [ data |-> data, reads |-> reads \o ReadsOf(img, t),
                raised |-> TRUE, diverged |-> FALSE, chartRead |-> chartRead,
                result |-> "error" ]
         ELSE IF t = "typeChart" /\ Diverges(img)
         THEN [ data |-> data, reads |-> reads \o ReadsOf(img, t),
                raised |-> FALSE, diverged |-> TRUE, chartRead |-> chartRead,
                result |-> "none" ]
         ELSE LoadAllFrom([data EXCEPT ![t] = LoadTable(img, t)], img, k + 1,
                          reads \o ReadsOf(img, t))

\* ROMData.init with its guard removed: every call loads the tables.
ROMInitMutNoGuard(data, img) == LoadAllFrom(data, img, 1, <<>>)

\* ROMData.init (lines 519-542).
ROMInit(data, img) ==
    IF data.initialized
    THEN [ data |-> data, reads |-> <<>>, raised |-> FALSE, diverged |-> FALSE,
           chartRead |-> 0, result |-> "true" ]
    ELSE LoadAllFrom(data, img, 1, <<>>)

\* Lua's nil where a table has no entry for an id.
NilEntry == [nil |-> TRUE]

\* The getters getPokemon, getMove, getItem, getAbilityName, getNature and
\* getTypeName (lines 974-1002): init if the store is not initialized, then
\* the entry of the table, nil if it has none.
Getters ==
    [ pokemon |-> "getPokemon", moves |-> "getMove", items |-> "getItem",
      abilities |-> "getAbilityName", natures |-> "getNature", types |-> "getTypeName" ]

\* A getter answering an id past the table with the last entry.
ROMGetMutClamp(data, img, t, id) ==
    LET i == ROMInit(data, img) IN
    IF i.raised \/ i.diverged THEN i
    ELSE [i EXCEPT !.result =
            IF id \in DOMAIN i.data[t] THEN i.data[t][id]
            ELSE IF id > 0 /\ i.data[t] # <<>>
                 THEN i.data[t][Cardinality(DOMAIN i.data[t]) - 1]
                 ELSE NilEntry]

ROMGet(data, img, t, id) ==
    LET i == ROMInit(data, img) IN
    IF i.raised \/ i.diverged THEN i
    ELSE [i EXCEPT !.result =
            IF id \in DOMAIN i.data[t] THEN i.data[t][id] ELSE NilEntry]

\* getTypeEffectiveness taking a stored multiplier of 0 for a missing one.
GetTypeEffectivenessMutZeroFalsy(data, img, attackType, defenseType) ==
    LET i == ROMInit(data, img) IN
    IF i.raised \/ i.diverged THEN i
    ELSE [i EXCEPT !.result =
            IF <<attackType, defenseType>> \in DOMAIN i.data.typeChart
                /\ i.data.typeChart[<<attackType, defenseType>>] # 0
            THEN i.data.typeChart[<<attackType, defenseType>>]
            ELSE 10]

\* getTypeEffectiveness (lines 1004-1011).
GetTypeEffectiveness(data, img, attackType, defenseType) ==
    LET i == ROMInit(data, img) IN
    IF i.raised \/ i.diverged THEN i
    ELSE [i EXCEPT !.result =
            IF \E p \in DOMAIN i.data.typeChart : p[1] = attackType
            THEN (IF <<attackType, defenseType>> \in DOMAIN i.data.typeChart
                  THEN i.data.typeChart[<<attackType, defenseType>>]
                  ELSE 10)
            ELSE 10]

\* What romCall keeps of a returned value: a string or a number is kept
\* under its kind, a table as it is.
Text(s) == [text |-> s]
Number(n) == [number |-> n]

NoCall ==
    [ op |-> "none", arg |-> <<>>, reads |-> <<>>, raised |-> FALSE,
      diverged |-> FALSE, chartRead |-> 0, result |-> Text("nil") ]

\* The script is running: no call so far is still in the loop of
\* loadTypeChart.
Running == ~romCall.diverged

\* The project directory before any script has run on it: the files of the
\* directory PokemonEmeraldReader (name -> content), the files of the backup
\* directory the last deployment made, whether rollback.py has been written,
\* the .lua files the directory held before the last deployment, and the
\* last script run and its argument.
Project(dir) ==
    [ dir |-> dir, backup |-> <<>>, script |-> FALSE, before |-> <<>>,
      op |-> "none", arg |-> "none" ]

\* main.lua: local Config (line 1271).
InitConfig == [showBattleInfo |-> TRUE]

\* The battle flags of a game that is not followed: every read of
\* gBattleTypeFlags draws its own value.
AnyFlags == [value |-> "any", since |-> 0]

\* The battle flags of a game that holds the value v since frame count n.
HeldFlags(v, n) == [value |-> <<v>>, since |-> n]

\* install_rom_upload.py, server/index.js: let MEMORY (lines 440-445).
InitMEMORY ==
    [ IN_BATTLE |-> 33697772, BATTLE_TYPE |-> 33697774,
      PARTY_PLAYER |-> 33702532, PARTY_ENEMY |-> 33703748 ]

\* The ROM-upload server once its script has run to the end (lines 415-419,
\* 465-471, 862): the globals as declared, and the socket the first
\* connectToSNI() has created and is connecting.  A value that may be null
\* is held as a sequence, <<>> for null.  wire holds the Read commands
\* written to the socket and not answered; accepted, sent and invoked list
\* the requests readMemory queued, those written as commands and those
\* whose callback ran; observed is what the last in-battle callback was
\* given, cleared whether an in-battle callback has set battleState to null
\* on a byte of 0 and none has been given a non-zero byte since, emitted the
\* battle-update the last step sent to the web clients.
InitRomServer ==
    [ MEMORY |-> InitMEMORY, romAnalysisResults |-> <<>>,
      sniClient |-> "connecting", connectionStatus |-> "disconnected",
      isConnecting |-> TRUE, reconnectTimer |-> FALSE,
      readQueue |-> <<>>, currentReadCallback |-> <<>>, isProcessingRead |-> FALSE,
      battleState |-> <<>>, pollTimers |-> 0, queueTimers |-> 0,
      wire |-> <<>>, accepted |-> <<>>, sent |-> <<>>, invoked |-> <<>>,
      observed |-> "none", cleared |-> FALSE, emitted |-> "none",
      polls |-> 0, closes |-> 0, op |-> "none" ]

\* The SNI server once its script has run to the end (update_to_sni.py lines
\* 41-44, 150-151, 223): the globals as declared and the socket of the
\* first connectToSNI().  wire holds the Read commands written to the
\* socket and not answered; delivered is the last response handed to a
\* callback: the request the callback belongs to and the request the
\* response answers.
InitSniServer ==
    [ sniClient |-> "connecting", connectionStatus |-> "disconnected",
      battleState |-> <<>>, pendingReads |-> <<>>, monitoringInterval |-> 0,
      reconnectTimers |-> 0, wire |-> <<>>, requests |-> 0, closes |-> 0,
      delivered |-> <<>>, op |-> "none" ]

InitHost ==
    /\ fs = Project(<<>>)
    /\ Config = InitConfig
    /\ memFlags = AnyFlags
    /\ romServer = InitRomServer
    /\ sniServer = InitSniServer

InitAux ==
    /\ InitHost
    /\ image = BaseImage
    /\ romCall = NoCall
    /\ parsed = [variant |-> "none"]
    /\ callArgs = <<>>

\* A script calls ROMData.init.
CallROMInit ==
    LET i == ROMInit(romData, image) IN
    /\ Running
    /\ romData' = i.data
    /\ romCall' = [op |-> "init", arg |-> <<>>, reads |-> i.reads,
                   raised |-> i.raised, diverged |-> i.diverged,
                   chartRead |-> i.chartRead, result |-> Text(i.result)]
    /\ UNCHANGED <<rating, image, hostVars, parsed, callArgs, resolverVars, battleVars>>

\* Ids a getter is called with: negative, the last of the table, the next.
IdSamples(last) == {-1, last, last + 1}

LastOf ==
    [ pokemon |-> LastSpeciesId, moves |-> LastMoveId, items |-> LastItemId,
      abilities |-> LastAbilityId, natures |-> LastNatureId, types |-> LastTypeId ]

\* A script calls one of the table getters.
CallGetter ==
    \E t \in DOMAIN Getters : \E id \in IdSamples(LastOf[t]) :
        LET g == ROMGet(romData, image, t, id) IN
        /\ Running
        /\ romData' = g.data
        /\ romCall' = [op |-> Getters[t], arg |-> <<id>>, reads |-> g.reads,
                       raised |-> g.raised, diverged |-> g.diverged,
                       chartRead |-> g.chartRead,
                       result |-> IF g.raised \/ g.diverged THEN Text(g.result)
                                  ELSE g.result]
        /\ UNCHANGED <<rating, image, hostVars, parsed, callArgs, resolverVars, battleVars>>

AttackSamples == {0, 1}
DefenseSamples == {0, 1}

\* A script calls getTypeEffectiveness.
CallGetTypeEffectiveness ==
    \E a \in AttackSamples, d \in DefenseSamples :
        LET g == GetTypeEffectiveness(romData, image, a, d) IN
        /\ Running
        /\ romData' = g.data
        /\ romCall' = [op |-> "getTypeEffectiveness", arg |-> <<a, d>>,
                       reads |-> g.reads, raised |-> g.raised,
                       diverged |-> g.diverged, chartRead |-> g.chartRead,
                       result |-> IF g.raised \/ g.diverged THEN Text(g.result)
                                  ELSE Number(g.result)]
        /\ UNCHANGED <<rating, image, hostVars, parsed, callArgs, resolverVars, battleVars>>

\* A caller rates a species: an id of the table, a negative id, the last
\* id of a full table and the first id past it.  calculateRandomizerTier
\* reads the entry through getPokemon (line 877), which runs init on a
\* store not initialized; the rating is computed on the store it leaves
\* (the store itself when it was initialized).
CallCalculateRandomizerTier ==
    \E pokemonId \in (0..MaxSpeciesId) \cup IdSamples(LastSpeciesId) :
        \E g \in {ROMGet(romData, image, "pokemon", pokemonId)} :
            /\ Running
            /\ romData' = g.data
            /\ \E result \in {IF g.raised \/ g.diverged THEN Text(g.result)
                               ELSE IF romData.initialized
                                    THEN CalculateRandomizerTier(pokemonId)
                                    ELSE CalculateRandomizerTier(pokemonId)'} :
                /\ rating' = IF g.raised \/ g.diverged THEN rating
                             ELSE [id |-> pokemonId, result |-> result]
                /\ romCall' = [op |-> "calculateRandomizerTier", arg |-> <<pokemonId>>,
                               reads |-> g.reads, raised |-> g.raised,
                               diverged |-> g.diverged, chartRead |-> g.chartRead,
                               result |-> result]
            /\ UNCHANGED <<image, hostVars, parsed, callArgs, resolverVars, battleVars>>

---------------------------------------------------------------------------
(* The servers: parsePokemonData *)

POKEMON_SIZE == 100

POKEMON_OFFSETS ==
    [ species |-> 32, held_item |-> 34, moves |-> 44, level |-> 84,
      hp_current |-> 86, hp_max |-> 88, attack |-> 90, defense |-> 92,
      speed |-> 94, sp_attack |-> 96, sp_defense |-> 98, nature |-> 100 ]

\* bytes[at] | (bytes[at + 1] << 8)
Word(bytes, at) == bytes[at] + bytes[at + 1] * 256

\* A buffer a server hands over: `len` bytes, indexed from 0, every slot
\* with the same species bytes and the same byte everywhere else.
Buffer(len, lo, hi, fill) ==
    [ i \in 0 .. len - 1 |->
        IF i % POKEMON_SIZE = POKEMON_OFFSETS.species THEN lo
        ELSE IF i % POKEMON_SIZE = POKEMON_OFFSETS.species + 1 THEN hi
        ELSE fill ]

BufferLengths == {99, 100, 200}
SpeciesLow == {0, 1, 155, 156, 244, 245, 255}
SpeciesHigh == {0, 1, 2, 255}
FillBytes == {0, 7}
SlotArgs == {0, 1}

Buffers ==
    { Buffer(len, lo, hi, fill) :
        len \in BufferLengths, lo \in SpeciesLow, hi \in SpeciesHigh,
        fill \in FillBytes }

Length(bytes) == Cardinality(DOMAIN bytes)

\* The moves loop of both variants: the four move ids, those above 0 kept.
RECURSIVE MovesFrom(_, _, _)
MovesFrom(bytes, offset, i) ==
    IF i >= 4 THEN <<>>
    ELSE LET move == Word(bytes, offset + POKEMON_OFFSETS.moves + i * 2) IN
         (IF move > 0 THEN <<move>> ELSE <<>>) \o MovesFrom(bytes, offset, i + 1)

NullPokemon == [kind |-> "null"]

\* parsePokemonData of install_rom_upload.py (lines 628-674).
ParsePokemonDataUpload(bytes, slot) ==
    IF Length(bytes) < POKEMON_SIZE THEN NullPokemon
    ELSE LET offset == slot * POKEMON_SIZE IN
         IF offset + POKEMON_SIZE > Length(bytes) THEN NullPokemon
         ELSE LET species == Word(bytes, offset + POKEMON_OFFSETS.species) IN
              IF species = 0 \/ species > 500 THEN NullPokemon
              ELSE [ kind |-> "record",
                     species |-> species,
                     level |-> bytes[offset + POKEMON_OFFSETS.level],
                     hp |-> [ current |-> Word(bytes, offset + POKEMON_OFFSETS.hp_current),
                              max |-> Word(bytes, offset + POKEMON_OFFSETS.hp_max) ],
                     stats |-> [ attack |-> Word(bytes, offset + POKEMON_OFFSETS.attack),
                                 defense |-> Word(bytes, offset + POKEMON_OFFSETS.defense),
                                 speed |-> Word(bytes, offset + POKEMON_OFFSETS.speed),
                                 spAttack |-> Word(bytes, offset + POKEMON_OFFSETS.sp_attack),
                                 spDefense |-> Word(bytes, offset + POKEMON_OFFSETS.sp_defense) ],
                     moves |-> MovesFrom(bytes, offset, 0) ]

\* parsePokemonData of update_to_sni.py (lines 171-220).  bytes[...] past
\* the end of the buffer is undefined, here "undefined"; the length check
\* keeps every read inside the buffer.
ParsePokemonDataSNI(bytes, slot) ==
    LET offset == slot * POKEMON_SIZE IN
    IF offset + POKEMON_SIZE > Length(bytes) THEN NullPokemon
    ELSE LET species == Word(bytes, offset + POKEMON_OFFSETS.species) IN
         IF species = 0 THEN NullPokemon
         ELSE [ kind |-> "record",
                species |-> species,
                level |-> bytes[offset + POKEMON_OFFSETS.level],
                hp |-> [ current |-> Word(bytes, offset + POKEMON_OFFSETS.hp_current),
                         max |-> Word(bytes, offset + POKEMON_OFFSETS.hp_max) ],
                stats |-> [ attack |-> Word(bytes, offset + POKEMON_OFFSETS.attack),
                            defense |-> Word(bytes, offset + POKEMON_OFFSETS.defense),
                            speed |-> Word(bytes, offset + POKEMON_OFFSETS.speed),
                            sp_attack |-> Word(bytes, offset + POKEMON_OFFSETS.sp_attack),
                            sp_defense |-> Word(bytes, offset + POKEMON_OFFSETS.sp_defense) ],
                nature |-> IF offset + POKEMON_OFFSETS.nature < Length(bytes)
                           THEN bytes[offset + POKEMON_OFFSETS.nature]
                           ELSE "undefined",
                held_item |-> Word(bytes, offset + POKEMON_OFFSETS.held_item),
                moves |-> MovesFrom(bytes, offset, 0) ]

---------------------------------------------------------------------------
(* main.lua and BattleDisplay.lua: the battle check *)

\* Frames the battle monitor is followed for.
MaxFrameCount == 30

updateInterval == 30
fullUpdateInterval == 300
battleCheckInterval == 10
StartupFrames == 180
ENEMY_PARTY_OFFSET == 1216    \* 0x4C0

NoPokemon == [species |-> 0]
NoBattleState ==
    [inBattle |-> FALSE, isWildBattle |-> FALSE, isTrainerBattle |-> FALSE,
     isDoubleBattle |-> FALSE, flags |-> 0]

\* What Memory.read_u16_le may give at gBattleTypeFlags: nil, no battle, a
\* wild battle (0x01), a trainer double battle (0x0A), a link battle (0x04).
FlagReads == {ReadFail, 0, 1, 10, 4}

\* band(flags, bit) ~= 0 for a bit that is a power of two.
BitSet(flags, bit) == (flags \div bit) % 2 = 1

GetBattleStateMutExclusive(battleFlags) ==
    IF battleFlags = ReadFail \/ battleFlags = 0 THEN NoBattleState
    ELSE [inBattle |-> TRUE,
          isWildBattle |-> BitSet(battleFlags, 1),
          isTrainerBattle |-> BitSet(battleFlags, 8) /\ ~BitSet(battleFlags, 1),
          isDoubleBattle |-> BitSet(battleFlags, 2),
          flags |-> battleFlags]

\* getBattleState (lines 324-337); NoBattleState stands for nil.
GetBattleState(battleFlags) ==
    IF battleFlags = ReadFail \/ battleFlags = 0 THEN NoBattleState
    ELSE [inBattle |-> TRUE,
          isWildBattle |-> BitSet(battleFlags, 1),
          isTrainerBattle |-> BitSet(battleFlags, 8),
          isDoubleBattle |-> BitSet(battleFlags, 2),
          flags |-> battleFlags]

\* What decoding the record at the opposing party's first slot may give:
\* a read failure, an empty slot, or a record of some species.
DecodeResults == {"ReadFailure", "Absent", "Species25", "Species150"}

\* PokemonReader.readPokemon(addr, false): nil for a failed read and for an
\* empty slot, the decoded record otherwise.
ReadPokemon(addr, decoded) ==
    CASE decoded = "Species25" -> [species |-> 25]
      [] decoded = "Species150" -> [species |-> 150]
      [] OTHER -> NoPokemon

\* readEnemyPokemon (lines 1083-1100) with the calls it makes:
\* getBattleState, getEnemyPartyAddress (lines 340-347), getPartyAddress
\* (lines 243-250), getSaveBlock1 and readPokemon.  The tier rating added at
\* line 1096 is a function of the species and is left out of the record.
ReadEnemyPokemon(c, h, currentFrame, battleFlags, pointer, decoded) ==
    LET battleState == GetBattleState(battleFlags)
        flagRead == <<addresses.gBattleTypeFlags>>
    IN  IF ~battleState.inBattle
        THEN [cache |-> c, heap |-> h, enemyPokemon |-> NoPokemon,
              battleState |-> NoBattleState, reads |-> flagRead,
              failed |-> battleFlags = ReadFail]
        ELSE LET sb == GetSaveBlock1Call(c, h, currentFrame, pointer) IN
             IF sb.ret.kind # "obj"
             THEN [cache |-> sb.cache, heap |-> sb.heap, enemyPokemon |-> NoPokemon,
                   battleState |-> NoBattleState, reads |-> flagRead \o sb.reads,
                   failed |-> pointer = ReadFail]
             ELSE LET enemyPartyAddr ==
                          sb.heap[sb.ret.val].teamAndItems + ENEMY_PARTY_OFFSET
                  IN  [cache |-> sb.cache, heap |-> sb.heap,
                       enemyPokemon |-> ReadPokemon(enemyPartyAddr + 4, decoded),
                       battleState |-> battleState,
                       reads |-> flagRead \o sb.reads \o <<enemyPartyAddr + 4>>,
                       failed |-> decoded = "ReadFailure"]

FlagStatus(battleFlags) ==
    IF battleFlags = ReadFail THEN "fail"
    ELSE IF battleFlags = 0 THEN "zero" ELSE "nonzero"

InitBattle ==
    /\ State = [ frameCount |-> 0, lastUpdate |-> 0, lastFullUpdate |-> 0,
                 lastBattleCheck |-> 0, currentBattle |-> NoPokemon,
                 playerInfo |-> "nil" ]
    /\ console = "none"
    /\ checkRet = "nil"
    /\ event = "Unchanged"
    /\ prevStatus = "none"
    /\ curStatus = "none"
    /\ pollFailed = FALSE
    /\ consecFail = 0
    /\ quickRuns = 0

\* The resolver as main.lua finds it when its loop starts (lines 1724-1726).
InitResolverAtStartup ==
    /\ frame = StartupFrames
    /\ cache = [saveBlock1 |-> NilRef, saveBlock2 |-> NilRef, lastCacheTime |-> 0]
    /\ heap = [i \in Slots |-> FreeSlot]
    /\ ret = NilResult("none")
    /\ readLog = <<>>
    /\ lastOp = "init"
    /\ resolved = [gSaveBlock1 |-> NoRecord, gSaveBlock2 |-> NoRecord]
    /\ succeeded = [gSaveBlock1 |-> NoRecord, gSaveBlock2 |-> NoRecord]
    /\ cleared = {}

\* checkBattle (lines 1425-1466) past its early return at line 1427: what
\* it leaves in State.currentBattle and on the console, and the resolver
\* cache after its reads.
CheckBattle(currentBattle, c, h, currentFrame, battleFlags, pointer, decoded) ==
    LET r == ReadEnemyPokemon(c, h, currentFrame, battleFlags, pointer, decoded)
        found == r.enemyPokemon # NoPokemon /\ r.battleState.inBattle
        isNew == currentBattle = NoPokemon
                    \/ currentBattle.species # r.enemyPokemon.species
    IN  [ currentBattle |->
            IF found THEN (IF isNew THEN r.enemyPokemon ELSE currentBattle)
            ELSE NoPokemon,
          console |->
            IF found /\ isNew
            THEN (IF r.battleState.isWildBattle THEN "wildEncounter"
                  ELSE IF r.battleState.isTrainerBattle THEN "trainerBattle"
                  ELSE "none")
            ELSE "none",
          event |->
            IF found THEN (IF isNew THEN "Entered" ELSE "Unchanged")
            ELSE IF currentBattle # NoPokemon THEN "Cleared"
            ELSE "Unchanged",
          failed |-> r.failed,
          cache |-> r.cache, heap |-> r.heap, reads |-> r.reads ]

\* getPlayerInfo (lines 305-321): nil when SaveBlock1 does not resolve, a
\* record of the fields read otherwise.
GetPlayerInfo(c, h, currentFrame, pointer) ==
    LET sb == GetSaveBlock1Call(c, h, currentFrame, pointer) IN
    [ playerInfo |-> IF sb.ret.kind = "obj" THEN "info" ELSE "nil",
      cache |-> sb.cache, heap |-> sb.heap, reads |-> sb.reads ]

\* quickUpdate (lines 1491-1505).  PokemonReader.readParty resolves the
\* party through getPartyAddress (lines 243-250), hence getSaveBlock1; the
\* party it decodes and the read counter only feed the display.
QuickUpdate(c, h, currentFrame, pointer) ==
    LET sb == GetSaveBlock1Call(c, h, currentFrame, pointer) IN
    [cache |-> sb.cache, heap |-> sb.heap, reads |-> sb.reads]

\* fullUpdate (lines 1508-1517): clearCache, getPlayerInfo, quickUpdate.
FullUpdate(c, h, currentFrame, infoPointer, partyPointer) ==
    LET info == GetPlayerInfo(ClearedCache(c), h, currentFrame, infoPointer)
        q == QuickUpdate(info.cache, info.heap, currentFrame, partyPointer)
    IN  [ playerInfo |-> info.playerInfo,
          cache |-> q.cache, heap |-> q.heap, reads |-> info.reads \o q.reads ]

\* What a read of gBattleTypeFlags may give now.
FlagsNow == IF memFlags = AnyFlags THEN FlagReads ELSE {memFlags.value[1]}

\* The frames the loop is followed over: the first MaxFrameCount frames, and
\* MaxFrameCount frames from the last battle check before the first full
\* refresh.
ScheduleStart == fullUpdateInterval - battleCheckInterval

InWindow(frameCount) ==
    \/ frameCount < MaxFrameCount
    \/ ScheduleStart <= frameCount /\ frameCount < ScheduleStart + MaxFrameCount

\* One turn of the main loop (lines 1730-1732) with no key pressed and the
\* battle display on (line 1271): update() (lines 1469-1488), then
\* emu.frameadvance().  The memory reads of the parts that are due are the
\* inputs.
Update ==
    /\ InWindow(State.frameCount)
    /\ LET frameCount == State.frameCount + 1
           checkDue == /\ Config.showBattleInfo
                       /\ ~(frameCount - State.lastBattleCheck < battleCheckInterval)
           quickDue == frameCount - State.lastUpdate >= updateInterval
           fullDue == frameCount - State.lastFullUpdate >= fullUpdateInterval
           same == [cache |-> cache, heap |-> heap, reads |-> <<>>]
       IN  \E battleFlags \in (IF checkDue THEN FlagsNow ELSE {0}),
              pointer \in (IF checkDue THEN PointerReads ELSE {ReadFail}),
              decoded \in (IF checkDue THEN DecodeResults ELSE {"Absent"}),
              quickPointer \in (IF quickDue THEN PointerReads ELSE {ReadFail}),
              infoPointer \in (IF fullDue THEN PointerReads ELSE {ReadFail}),
              partyPointer \in (IF fullDue THEN PointerReads ELSE {ReadFail}) :
            \E chk \in {CheckBattle(State.currentBattle, cache, heap, frame,
                                    battleFlags, pointer, decoded)} :
            \E c1 \in {IF checkDue
                       THEN [cache |-> chk.cache, heap |-> chk.heap, reads |-> chk.reads]
                       ELSE same} :
            \E c2 \in {IF quickDue
                       THEN LET q == QuickUpdate(c1.cache, c1.heap, frame, quickPointer)
                            IN  [q EXCEPT !.reads = c1.reads \o q.reads]
                       ELSE c1} :
            \E f \in {FullUpdate(c2.cache, c2.heap, frame, infoPointer, partyPointer)} :
            \E c3 \in {IF fullDue
                       THEN [cache |-> f.cache, heap |-> f.heap,
                             reads |-> c2.reads \o f.reads]
                       ELSE c2} :
                /\ State' = [ frameCount |-> frameCount,
                              lastBattleCheck |->
                                IF checkDue THEN frameCount ELSE State.lastBattleCheck,
                              lastUpdate |->
                                IF quickDue THEN frameCount ELSE State.lastUpdate,
                              lastFullUpdate |->
                                IF fullDue THEN frameCount ELSE State.lastFullUpdate,
                              currentBattle |->
                                IF checkDue THEN chk.currentBattle
                                ELSE State.currentBattle,
                              playerInfo |->
                                IF fullDue THEN f.playerInfo ELSE State.playerInfo ]
                /\ cache' = c3.cache
                /\ heap' = Collect(c3.heap, Live(c3.cache, ret))
                /\ readLog' = c3.reads
                /\ frame' = frame + 1
                /\ lastOp' = IF checkDue THEN "checkBattle" ELSE "update"
                /\ checkRet' = "nil"
                /\ quickRuns' = (IF quickDue THEN 1 ELSE 0) + (IF fullDue THEN 1 ELSE 0)
                /\ IF checkDue
                   THEN /\ console' = chk.console
                        /\ event' = chk.event
                        /\ prevStatus' = curStatus
                        /\ curStatus' = FlagStatus(battleFlags)
                        /\ pollFailed' = chk.failed
                        /\ consecFail' =
                            IF chk.failed
                            THEN (IF consecFail < 3 THEN consecFail + 1 ELSE 3)
                            ELSE 0
                   ELSE UNCHANGED <<console, event, prevStatus, curStatus,
                                    pollFailed, consecFail>>
                /\ UNCHANGED <<ret, resolved, succeeded, cleared>>
                /\ UNCHANGED <<scoreVars, auxVars>>

NextBattle == Update

InitAtStartup == InitResolverAtStartup /\ InitBattle /\ InitROMData /\ InitAux

SpecBattle == InitAtStartup /\ [][NextBattle]_vars

\* The loop after ScheduleStart turns in which the flags read 0 at every
\* battle check and no pointer read succeeded: the last battle check was
\* made on this frame, the last party refresh at the multiple of
\* updateInterval before it, no full refresh yet.
InitSchedule ==
    /\ InitROMData /\ InitAux
    /\ frame = StartupFrames + ScheduleStart
    /\ cache = [saveBlock1 |-> NilRef, saveBlock2 |-> NilRef, lastCacheTime |-> 0]
    /\ heap = [i \in Slots |-> FreeSlot]
    /\ ret = NilResult("none")
    /\ readLog = <<addresses.gBattleTypeFlags>>
    /\ lastOp = "checkBattle"
    /\ resolved = [gSaveBlock1 |-> NoRecord, gSaveBlock2 |-> NoRecord]
    /\ succeeded = [gSaveBlock1 |-> NoRecord, gSaveBlock2 |-> NoRecord]
    /\ cleared = {}
    /\ State = [ frameCount |-> ScheduleStart,
                 lastUpdate |-> fullUpdateInterval - updateInterval,
                 lastFullUpdate |-> 0, lastBattleCheck |-> ScheduleStart,
                 currentBattle |-> NoPokemon, playerInfo |-> "nil" ]
    /\ console = "none"
    /\ checkRet = "nil"
    /\ event = "Unchanged"
    /\ prevStatus = "zero"
    /\ curStatus = "zero"
    /\ pollFailed = FALSE
    /\ consecFail = 0
    /\ quickRuns = 0

\* handleInput with key B down (lines 1691-1694).
PressB ==
    /\ Config' = [Config EXCEPT !.showBattleInfo = ~Config.showBattleInfo]
    /\ UNCHANGED <<fs, memFlags, serverVars, image, romCall, parsed, callArgs>>
    /\ UNCHANGED <<resolverVars, battleVars, scoreVars>>

\* The game leaves the battle: gBattleTypeFlags holds 0 from this frame on.
BattleEnds ==
    /\ memFlags # AnyFlags /\ memFlags.value # <<0>>
    /\ memFlags' = HeldFlags(0, State.frameCount)
    /\ UNCHANGED <<fs, Config, serverVars, image, romCall, parsed, callArgs>>
    /\ UNCHANGED <<resolverVars, battleVars, scoreVars>>

\* The loop over a game that is in a wild battle when the script starts.
InitToggle ==
    /\ InitResolverAtStartup /\ InitBattle /\ InitROMData
    /\ image = BaseImage
    /\ romCall = NoCall
    /\ parsed = [variant |-> "none"]
    /\ callArgs = <<>>
    /\ fs = Project(<<>>)
    /\ Config = InitConfig
    /\ memFlags = HeldFlags(1, 0)
    /\ romServer = InitRomServer
    /\ sniServer = InitSniServer

NextToggle == Update \/ PressB \/ BattleEnds

SpecToggle == InitToggle /\ [][NextToggle]_vars

\* The loop from its start, and from ScheduleStart on.
InitLoop == InitAtStartup \/ InitSchedule

SpecSchedule == InitLoop /\ [][NextBattle]_vars

---------------------------------------------------------------------------
(* The resolver under an arbitrary caller *)

InitResolver ==
    /\ frame \in Frames
    /\ cache = [saveBlock1 |-> NilRef, saveBlock2 |-> NilRef, lastCacheTime |-> 0]
    /\ heap = [i \in Slots |-> FreeSlot]
    /\ ret = NilResult("none")
    /\ readLog = <<>>
    /\ lastOp = "init"
    /\ resolved = [gSaveBlock1 |-> NoRecord, gSaveBlock2 |-> NoRecord]
    /\ succeeded = [gSaveBlock1 |-> NoRecord, gSaveBlock2 |-> NoRecord]
    /\ cleared = {}

\* The emulator advances to a later tick.
Tick ==
    /\ \E f \in Frames : f > frame /\ frame' = f
    /\ lastOp' = "tick"
    /\ readLog' = <<>>
    /\ UNCHANGED <<cache, heap, ret, resolved, succeeded, cleared>>
    /\ UNCHANGED <<battleVars, scoreVars, auxVars>>

\* The names readPointer is called with: the two the engine itself resolves
\* and one that is not in Pointers.addresses.
CalledNames == {"gSaveBlock1", "gSaveBlock2", "gNoSuchPointer"}

CallReadPointer ==
    \E name \in CalledNames, pointer \in PointerReads :
        /\ ret' = ReadPointer(name, pointer)
        /\ readLog' = ReadPointerReads(name)
        /\ lastOp' = "readPointer"
        /\ heap' = Collect(heap, Live(cache, ret'))
        /\ UNCHANGED <<frame, cache, resolved, succeeded, cleared>>
        /\ UNCHANGED <<battleVars, scoreVars, auxVars>>

CallGetSaveBlock1 ==
    \E pointer \in PointerReads :
        LET res == GetSaveBlock1Call(cache, heap, frame, pointer) IN
        /\ cache' = res.cache
        /\ heap' = Collect(res.heap, Live(res.cache, res.ret))
        /\ ret' = res.ret
        /\ readLog' = res.reads
        /\ lastOp' = "getSaveBlock1"
        /\ resolved' = Recorded(resolved, "gSaveBlock1", res, TRUE)
        /\ succeeded' = Recorded(succeeded, "gSaveBlock1", res, FALSE)
        /\ cleared' = cleared \ {"gSaveBlock1"}
        /\ UNCHANGED frame
        /\ UNCHANGED <<battleVars, scoreVars, auxVars>>

CallGetSaveBlock2 ==
    \E pointer \in PointerReads :
        LET res == GetSaveBlock2Call(cache, heap, frame, pointer) IN
        /\ cache' = res.cache
        /\ heap' = Collect(res.heap, Live(res.cache, res.ret))
        /\ ret' = res.ret
        /\ readLog' = res.reads
        /\ lastOp' = "getSaveBlock2"
        /\ resolved' = Recorded(resolved, "gSaveBlock2", res, TRUE)
        /\ succeeded' = Recorded(succeeded, "gSaveBlock2", res, FALSE)
        /\ cleared' = cleared \ {"gSaveBlock2"}
        /\ UNCHANGED frame
        /\ UNCHANGED <<battleVars, scoreVars, auxVars>>

CallClearCache ==
    /\ cache' = ClearedCache(cache)
    /\ ret' = NilResult("none")
    /\ readLog' = <<>>
    /\ lastOp' = "clearCache"
    /\ resolved' = [gSaveBlock1 |-> NoRecord, gSaveBlock2 |-> NoRecord]
    /\ succeeded' = [gSaveBlock1 |-> NoRecord, gSaveBlock2 |-> NoRecord]
    /\ cleared' = Symbols
    /\ heap' = Collect(heap, Live(cache', ret'))
    /\ UNCHANGED frame
    /\ UNCHANGED <<battleVars, scoreVars, auxVars>>

Next ==
    \/ Tick
    \/ CallReadPointer
    \/ CallGetSaveBlock1
    \/ CallGetSaveBlock2
    \/ CallClearCache

Init == InitResolver /\ InitBattle /\ InitROMData /\ InitAux

Spec == Init /\ [][Next]_vars

\* A consumer of the Pointers module writes a field of the table it received
\* last (Lua tables are mutable and shared by reference).
ConsumerWrite ==
    /\ ret.kind = "obj"
    /\ heap' = [heap EXCEPT ![ret.val].pointer = 0]
    /\ lastOp' = "consumerWrite"
    /\ UNCHANGED <<frame, cache, ret, readLog, resolved, succeeded, cleared>>
    /\ UNCHANGED <<battleVars, scoreVars, auxVars>>

NextAlias ==
    \/ Tick
    \/ CallGetSaveBlock1
    \/ CallGetSaveBlock2
    \/ CallClearCache
    \/ ConsumerWrite

SpecAlias == Init /\ [][NextAlias]_vars

\* What a call of an address function leaves: `res` is its outcome.
AddressCall(res, op, args) ==
    LET called == res.ret.err \notin {"Invalid slot", "Invalid box"}
        rec == [at |-> frame, struct |-> res.heap[res.cache.saveBlock1]]
    IN  /\ cache' = res.cache
        /\ heap' = Collect(res.heap, Live(res.cache, res.ret))
        /\ ret' = res.ret
        /\ readLog' = res.reads
        /\ lastOp' = op
        /\ callArgs' = args
        /\ resolved' = IF res.ret.kind = "ptr" /\ res.fresh
                       THEN [resolved EXCEPT !.gSaveBlock1 = rec] ELSE resolved
        /\ succeeded' = IF res.ret.kind = "ptr"
                        THEN [succeeded EXCEPT !.gSaveBlock1 = rec] ELSE succeeded
        /\ cleared' = IF called THEN cleared \ {"gSaveBlock1"} ELSE cleared
        /\ UNCHANGED <<frame, image, hostVars, romCall, parsed>>
        /\ UNCHANGED <<battleVars, scoreVars>>

\* Slots and boxes a caller asks for: the ends of the range and next to them.
PartySlots == {-1, 0, 5, 6}
Boxes == {-1, 0, 13, 14}
BoxSlots == {-1, 0, 29, 30}

CallGetPartyPokemonAddress ==
    \E slot \in PartySlots, pointer \in PointerReads :
        AddressCall(GetPartyPokemonAddress(cache, heap, frame, slot, pointer),
                    "getPartyPokemonAddress", <<slot>>)

CallGetPCBoxAddress ==
    \E box \in Boxes, slot \in BoxSlots, pointer \in PointerReads :
        AddressCall(GetPCBoxAddress(cache, heap, frame, box, slot, pointer),
                    "getPCBoxAddress", <<box, slot>>)

NextAddr ==
    \/ Tick
    \/ CallGetSaveBlock1
    \/ CallClearCache
    \/ CallGetPartyPokemonAddress
    \/ CallGetPCBoxAddress

SpecAddr == Init /\ [][NextAddr]_vars

\* fullUpdate called at any tick (update() calls it every fullUpdateInterval
\* frames, and on the next frame after key R once 300 frames have passed).
CallFullUpdate ==
    \E infoPointer \in PointerReads, partyPointer \in PointerReads :
        LET f == FullUpdate(cache, heap, frame, infoPointer, partyPointer) IN
        /\ State' = [State EXCEPT !.playerInfo = f.playerInfo]
        /\ cache' = f.cache
        /\ heap' = Collect(f.heap, Live(f.cache, ret))
        /\ readLog' = f.reads
        /\ lastOp' = "fullUpdate"
        /\ LET rec == IF f.cache.saveBlock1 # NilRef
                      THEN [at |-> frame, struct |-> f.heap[f.cache.saveBlock1]]
                      ELSE NoRecord
           IN  /\ resolved' = [gSaveBlock1 |-> rec, gSaveBlock2 |-> NoRecord]
               /\ succeeded' = [gSaveBlock1 |-> rec, gSaveBlock2 |-> NoRecord]
        /\ cleared' = {"gSaveBlock2"}
        /\ quickRuns' = 1
        /\ UNCHANGED <<frame, ret>>
        /\ UNCHANGED <<console, checkRet, event, prevStatus, curStatus,
                       pollFailed, consecFail>>
        /\ UNCHANGED <<scoreVars, auxVars>>

NextRefresh == Tick \/ CallGetSaveBlock1 \/ CallGetSaveBlock2 \/ CallFullUpdate

SpecRefresh == Init /\ [][NextRefresh]_vars

\* The tier rating over a loaded store.
InitScore == InitResolverAtStartup /\ InitBattle /\ InitLoaded /\ InitAux

\* The defending types a caller asks the defensive score for: every pair
\* of the 18 types.
TypePairs == (0..LastAttackType) \X (0..LastAttackType)

\* A caller asks for the defensive score of a typing.
CallCalculateTypeDefensiveScore ==
    \E t \in TypePairs :
        /\ romCall' = [op |-> "calculateTypeDefensiveScore", arg |-> t,
                       reads |-> <<>>, raised |-> FALSE, diverged |-> FALSE,
                       chartRead |-> 0,
                       result |-> Number(CalculateTypeDefensiveScore100(t[1], t[2]))]
        /\ UNCHANGED <<romData, rating, image, hostVars, parsed, callArgs, resolverVars,
                       battleVars>>

NextScore == CallCalculateRandomizerTier

SpecScore == InitScore /\ [][NextScore]_vars

\* The defensive score over a loaded store, whatever its type chart (the
\* score does not look at the species table).
InitDefense ==
    /\ InitResolverAtStartup /\ InitBattle /\ InitAux
    /\ romData \in [ initialized : {TRUE},
                     pokemon : {[i \in 0..MaxSpeciesId |->
                                    SpeciesEntry(1, 0, 5, 5, 0, 5, 0, 0)]},
                     typeChart : SampleCharts ]
    /\ rating = NoRating

NextDefense == CallCalculateTypeDefensiveScore

SpecDefense == InitDefense /\ [][NextDefense]_vars

\* Every value Memory.read_u16_le can give at gBattleTypeFlags: the 16-bit
\* values and a failed read.
FLAG_WIDTH == 16

FlagValues == (0..(2 ^ FLAG_WIDTH - 1)) \cup {ReadFail}

InitFlags ==
    /\ InitResolverAtStartup /\ InitBattle /\ InitROMData
    /\ InitHost
    /\ image = BaseImage
    /\ romCall = NoCall
    /\ parsed = [variant |-> "none"]
    /\ callArgs \in {<<f>> : f \in FlagValues}

\* A caller asks for the battle state while gBattleTypeFlags holds
\* callArgs[1].
CallGetBattleState ==
    /\ romCall' = [op |-> "getBattleState", arg |-> callArgs,
                   reads |-> <<"gBattleTypeFlags">>, raised |-> FALSE,
                   diverged |-> FALSE, chartRead |-> 0,
                   result |-> GetBattleState(callArgs[1])]
    /\ UNCHANGED <<romData, rating, image, hostVars, parsed, callArgs, resolverVars,
                   battleVars>>

NextFlags == CallGetBattleState

SpecFlags == InitFlags /\ [][NextFlags]_vars

\* The longest field a caller of readPokemonString asks for here, the bytes
\* the memory is sampled from, and the windows of memory found at addr.
MaxNameLength == 3

ByteSamples == {0, 1, 187, 176, STRING_TERMINATOR, NoByte}

RECURSIVE Windows(_)
Windows(n) ==
    IF n = 0 THEN {<<>>}
    ELSE {Append(w, b) : w \in Windows(n - 1), b \in ByteSamples}

Chars(s) == [chars |-> s]

\* The memory found at addr when readPokemonString is called.
InitString ==
    /\ InitResolverAtStartup /\ InitBattle /\ InitROMData
    /\ InitHost
    /\ image = BaseImage
    /\ romCall = NoCall
    /\ parsed = [variant |-> "none"]
    /\ callArgs \in Windows(MaxNameLength + 1)

\* A table load reads a text field of at most maxLength bytes.
CallReadPokemonString ==
    \E maxLength \in 0..MaxNameLength :
        LET r == ReadPokemonString(callArgs, maxLength) IN
        /\ romCall' = [op |-> "readPokemonString", arg |-> <<callArgs, maxLength>>,
                       reads |-> r.reads, raised |-> r.raised, diverged |-> FALSE,
                       chartRead |-> 0,
                       result |-> IF r.raised THEN Text("error") ELSE Chars(r.str)]
        /\ UNCHANGED <<romData, rating, image, hostVars, parsed, callArgs, resolverVars,
                       battleVars>>

NextString == CallReadPokemonString

SpecString == InitString /\ [][NextString]_vars

\* The reference store over a program image: init and the getters, called
\* in any order.
InitROM ==
    /\ InitResolverAtStartup /\ InitBattle /\ InitROMData
    /\ InitHost
    /\ image \in Images
    /\ romCall = NoCall
    /\ parsed = [variant |-> "none"]
    /\ callArgs = <<>>

NextROM ==
    \/ CallROMInit
    \/ CallGetter
    \/ CallGetTypeEffectiveness
    \/ CallCalculateRandomizerTier

SpecROM == InitROM /\ [][NextROM]_vars

\* The servers parsing a slot of a buffer.
CallParsePokemonDataUpload ==
    \E bytes \in Buffers, slot \in SlotArgs :
        /\ parsed' = [variant |-> "upload", bytes |-> bytes, slot |-> slot,
                      result |-> ParsePokemonDataUpload(bytes, slot)]
        /\ UNCHANGED <<image, hostVars, romCall, callArgs>>
        /\ UNCHANGED <<resolverVars, battleVars, scoreVars>>

CallParsePokemonDataSNI ==
    \E bytes \in Buffers, slot \in SlotArgs :
        /\ parsed' = [variant |-> "sni", bytes |-> bytes, slot |-> slot,
                      result |-> ParsePokemonDataSNI(bytes, slot)]
        /\ UNCHANGED <<image, hostVars, romCall, callArgs>>
        /\ UNCHANGED <<resolverVars, battleVars, scoreVars>>

NextParse == CallParsePokemonDataUpload \/ CallParsePokemonDataSNI

SpecParse == Init /\ [][NextParse]_vars

---------------------------------------------------------------------------
(* The Python scripts: fix_romdata.py, deploy_updates.py, rollback.py *)

\* A Lua file is taken line by line, each line by what the scripts look at:
\* a comment, a `local X = require(...)`, another `local` line, a line
\* calling bit.band(, a line calling band(, any other line, and the
\* compatibility header (COMPAT_HEADER, lines 13-21 of fix_romdata.py).
UsesBit(line) == line \in {"bitcall", "header"}

\* insert_pos of lines 45-50: the place after the last require line met
\* before the first line that is neither blank, comment, local nor require.
RECURSIVE InsertPos(_, _, _)
InsertPos(lines, i, pos) ==
    IF i > Len(lines) THEN pos
    ELSE IF lines[i] \in {"bitcall", "call", "code"} THEN i - 1
    ELSE IF lines[i] = "require" THEN InsertPos(lines, i + 1, i)
    ELSE InsertPos(lines, i + 1, pos)

\* The content fix_lua_file writes (lines 41-65): the header inserted and
\* every bit.band( replaced by band(.
FixedContent(content) ==
    LET pos == InsertPos(content, 1, 0)
        inserted == SubSeq(content, 1, pos) \o <<"header">>
                        \o SubSeq(content, pos + 1, Len(content))
    IN  [k \in 1..Len(inserted) |->
            IF inserted[k] = "bitcall" THEN "call" ELSE inserted[k]]

\* Whether fix_lua_file modifies the file (lines 29-37).
NeedsFix(content) ==
    /\ \E k \in 1..Len(content) : UsesBit(content[k])
    /\ \A k \in 1..Len(content) : content[k] # "header"

\* filepath.with_suffix('.lua.backup') (line 70).
BackupName ==
    [ n \in {"Memory.lua", "ROMData.lua", "Pointers.lua"} |->
        CASE n = "Memory.lua" -> "Memory.lua.backup"
          [] n = "ROMData.lua" -> "ROMData.lua.backup"
          [] n = "Pointers.lua" -> "Pointers.lua.backup" ]

\* A directory with the file `name` written.
Written(dir, name, content) ==
    [n \in DOMAIN dir \cup {name} |-> IF n = name THEN content ELSE dir[n]]

\* fix_lua_file(filepath) (lines 23-80): the directory it leaves.
FixLuaFile(dir, name) ==
    IF ~NeedsFix(dir[name]) THEN dir
    ELSE LET content == FixedContent(dir[name]) IN
         Written(Written(dir, BackupName[name], content), name, content)

\* The .lua files of a directory: Path(directory).glob("*.lua").
IsLua(n) == n \in {"Memory.lua", "ROMData.lua", "Pointers.lua", "main.lua", "old.lua"}

LuaFiles(dir) == [n \in {m \in DOMAIN dir : IsLua(m)} |-> dir[n]]

\* FILE_UPDATES (lines 13-1747 of deploy_updates.py): the files deployed,
\* here two of the four, each with the header and no bit.* call.
FILE_UPDATES ==
    [ n \in {"Pointers.lua", "main.lua"} |-> <<"comment", "require", "header", "call">> ]

RECURSIVE WrittenAll(_, _, _)
WrittenAll(dir, files, names) ==
    IF names = {} THEN dir
    ELSE LET n == CHOOSE m \in names : TRUE IN
         WrittenAll(Written(dir, n, files[n]), files, names \ {n})

\* deploy_updates (lines 1764-1823): create_backup (lines 1750-1762) copies
\* the .lua files into a new backup directory when there are any, the files
\* of FILE_UPDATES are written, and rollback.py is written when a backup was
\* made.
DeployUpdates(f) ==
    LET lua == LuaFiles(f.dir)
        backedUp == lua # <<>>
    IN  [ dir |-> WrittenAll(f.dir, FILE_UPDATES, DOMAIN FILE_UPDATES),
          backup |-> IF backedUp THEN lua ELSE f.backup,
          script |-> f.script \/ backedUp,
          before |-> lua,
          op |-> "deploy_updates", arg |-> "none" ]

\* rollback.py (lines 1-15), run in the directory: every .lua file of the
\* backup directory is copied over the file of that name.
Rollback(f) ==
    [f EXCEPT !.dir = WrittenAll(f.dir, f.backup, DOMAIN f.backup),
              !.op = "rollback", !.arg = "none"]

\* The contents a file of the directory starts with.
SampleContents ==
    { <<"bitcall">>,
      <<"comment", "require", "local", "bitcall", "code">>,
      <<"comment", "code", "require", "bitcall">>,
      <<"comment", "require", "code">>,
      <<"header", "call">> }

\* The directories the scripts are run on: any of three files, with any of
\* the contents.
SampleDirs ==
    UNION { [names -> SampleContents] :
              names \in SUBSET {"Memory.lua", "Pointers.lua", "old.lua"} }

InitFiles ==
    /\ InitResolverAtStartup /\ InitBattle /\ InitROMData
    /\ image = BaseImage
    /\ romCall = NoCall
    /\ parsed = [variant |-> "none"]
    /\ callArgs = <<>>
    /\ Config = InitConfig
    /\ memFlags = AnyFlags
    /\ romServer = InitRomServer
    /\ sniServer = InitSniServer
    /\ fs \in {Project(d) : d \in SampleDirs}

\* fix_romdata.py calls fix_lua_file on a target file that exists (lines
\* 112-124).
CallFixLuaFile ==
    \E name \in DOMAIN BackupName \cap DOMAIN fs.dir :
        /\ fs' = [fs EXCEPT !.dir = FixLuaFile(fs.dir, name),
                            !.op = "fix_lua_file", !.arg = name]
        /\ UNCHANGED <<Config, memFlags, serverVars, image, romCall, parsed, callArgs>>
        /\ UNCHANGED <<resolverVars, battleVars, scoreVars>>

\* The user runs deploy_updates.py.
CallDeployUpdates ==
    /\ fs' = DeployUpdates(fs)
    /\ UNCHANGED <<Config, memFlags, serverVars, image, romCall, parsed, callArgs>>
    /\ UNCHANGED <<resolverVars, battleVars, scoreVars>>

\* The user runs the rollback.py the last deployment wrote.
CallRollback ==
    /\ fs.script
    /\ fs' = Rollback(fs)
    /\ UNCHANGED <<Config, memFlags, serverVars, image, romCall, parsed, callArgs>>
    /\ UNCHANGED <<resolverVars, battleVars, scoreVars>>

NextFiles == CallFixLuaFile \/ CallDeployUpdates \/ CallRollback

SpecFiles == InitFiles /\ [][NextFiles]_vars

---------------------------------------------------------------------------
(* install_rom_upload.py, server/index.js: the ROM analysis *)

\* An uploaded buffer is `length` bytes, all equal to `fill`, except six
\* bytes `patch` at offset patchAt and the two 32-bit words `table` at
\* pointerTableOffset.
ByteAt(buffer, k) ==
    IF k >= buffer.patchAt /\ k < buffer.patchAt + Len(buffer.patch)
    THEN buffer.patch[k - buffer.patchAt + 1]
    ELSE buffer.fill

\* ROMAnalyzer constructor: this.dmaPatterns (lines 97-106).
dmaPatterns ==
    [ active |-> <<0, 74, 16, 104, 0, 40>>,
      disabled |-> << <<0, 0, 0, 0, 0, 0>>, <<112, 71, 0, 0, 0, 0>>,
                      <<192, 70, 192, 70, 192, 70>> >> ]

\* checkDMAProtection: dmaCheckOffset 0x080000, searchSize 0x100000 (lines
\* 201-202).
dmaCheckOffset == 524288
searchSize == 1048576

\* The alternative offsets as offsets into the file instead of addresses of
\* the cartridge space.
altOffsetsMutFileOffsets == <<1024, 4096, 8192>>

\* checkDMAProtection: const altOffsets (line 230).
altOffsets == <<134218752, 134221824, 134225920>>
\* The Thumb NOP 0x46C0 (line 238).
NOP == 18112
\* findMemoryAddresses: pointerTableOffset 0x3A0000 (line 267).
pointerTableOffset == 3801088
\* multer limits.fileSize, 32 * 1024 * 1024 (line 426).
fileSize == 33554432

\* comparePattern (lines 370-379).
ComparePattern(buffer, offset, pattern) ==
    /\ ~(offset + Len(pattern) > buffer.length)
    /\ \A i \in 1..Len(pattern) : ByteAt(buffer, offset + i - 1) = pattern[i]

\* The offsets the first loop of checkDMAProtection visits (line 205) at
\* which a window can differ from six fill bytes: a window of six equal
\* bytes matches no pattern with two different bytes.
ScanOffsets(buffer) ==
    { i \in (buffer.patchAt - 5)..(buffer.patchAt + 5) :
        /\ i >= dmaCheckOffset
        /\ i < dmaCheckOffset + searchSize
        /\ i < buffer.length - 6 }

\* buffer.readUInt16LE(k) (line 236).
ReadUInt16LE(buffer, k) == ByteAt(buffer, k) + 256 * ByteAt(buffer, k + 1)

\* The NOP and zero instructions of the 0x100 bytes at offset (lines 234-240).
NopCount(buffer, offset) ==
    Cardinality({ i \in 0..127 :
        ReadUInt16LE(buffer, offset + 2 * i) \in {NOP, 0} })

\* The alternative offsets checkDMAProtection does not skip and finds a
\* sled at (lines 231-250).
AltHits(buffer, offsets) ==
    { n \in 1..Len(offsets) :
        /\ ~(offsets[n] + 256 > buffer.length)
        /\ NopCount(buffer, offsets[n]) > 20 }

\* The smallest member of a non-empty set of integers.
Least(S) == CHOOSE x \in S : \A y \in S : x <= y

\* checkDMAProtection (lines 200-258).
CheckDMAProtection(buffer) ==
    LET found == { i \in ScanOffsets(buffer) :
                     ComparePattern(buffer, i, dmaPatterns.active) }
        hits == AltHits(buffer, altOffsets)
    IN  IF found # {}
        THEN IF \E n \in 1..Len(dmaPatterns.disabled) :
                    ComparePattern(buffer, Least(found), dmaPatterns.disabled[n])
             THEN [ disabled |-> TRUE, pattern |-> "Anti-DMA patch detected",
                    offset |-> Least(found), confidence |-> "high" ]
             ELSE [ disabled |-> FALSE, pattern |-> "DMA protection active",
                    offset |-> Least(found), confidence |-> "high" ]
        ELSE IF hits # {}
        THEN [ disabled |-> TRUE, pattern |-> "Likely DMA bypass detected",
               offset |-> altOffsets[Least(hits)], confidence |-> "medium" ]
        ELSE [ disabled |-> FALSE, pattern |-> "No DMA modifications detected",
               offset |-> -1, confidence |-> "low" ]

\* findMemoryAddresses (lines 260-298) on a buffer whose only words that
\* look like a GBA memory address are those of `table`; 0 stands for a key
\* the function does not set.
FindMemoryAddresses(buffer) ==
    LET value == buffer.table[1]
        nextValue == buffer.table[2]
        scanned == pointerTableOffset + 4096 < buffer.length
        looksLikeAddress == value >= 33554432 /\ value < 50331648
        partyPokemon ==
            IF scanned /\ looksLikeAddress /\ nextValue # value + 100
                /\ nextValue = value + 1216
            THEN value ELSE 0
        customPartyBase ==
            IF scanned /\ looksLikeAddress /\ nextValue = value + 100
            THEN value ELSE 0
    IN  IF partyPokemon = 0
        THEN [ customPartyBase |-> customPartyBase, partyPokemon |-> 33702532,
               enemyPokemon |-> 33703748, battleState |-> 33697772 ]
        ELSE [ customPartyBase |-> customPartyBase, partyPokemon |-> partyPokemon,
               enemyPokemon |-> 0, battleState |-> 0 ]

\* analyzeROM (lines 148-197): the results the handler uses.
AnalyzeROM(buffer) ==
    [ size |-> buffer.length,
      dmaStatus |-> CheckDMAProtection(buffer),
      memoryAddresses |-> FindMemoryAddresses(buffer) ]

\* The MEMORY object after the handler's update (lines 788-800).
UpdatedMEMORY(MEMORY, results) ==
    IF results.dmaStatus.disabled
    THEN [ MEMORY EXCEPT
             !.PARTY_PLAYER = IF results.memoryAddresses.partyPokemon # 0
                              THEN results.memoryAddresses.partyPokemon ELSE @,
             !.PARTY_ENEMY = IF results.memoryAddresses.enemyPokemon # 0
                             THEN results.memoryAddresses.enemyPokemon ELSE @,
             !.IN_BATTLE = IF results.memoryAddresses.battleState # 0
                           THEN results.memoryAddresses.battleState ELSE @ ]
    ELSE MEMORY

\* The buffers uploaded: lengths around the bounds the analysis tests and
\* the upload limit, and beyond it up to the alternative offsets.
SampleLengths ==
    { 6, dmaCheckOffset + 7, dmaCheckOffset + searchSize + 6,
      pointerTableOffset + 4097, fileSize, fileSize + 1, altOffsets[3] + 256 }

SampleBuffers ==
    [ length : SampleLengths,
      fill : {0, 255},
      patchAt : { dmaCheckOffset, dmaCheckOffset + searchSize - 1,
                  dmaCheckOffset + searchSize },
      patch : {dmaPatterns.active} \cup
              { dmaPatterns.disabled[n] : n \in 1..Len(dmaPatterns.disabled) },
      table : { <<0, 0>>, <<33751040, 33751040 + 1216>> } ]

\* POST /api/analyze-rom (lines 773-818) with a .gba file: multer rejects a
\* file over limits.fileSize (lines 423-428) before the handler runs;
\* callArgs is the buffer of the last request the handler ran for.
AnalyzeRom ==
    \E buffer \in SampleBuffers :
        /\ callArgs' = IF buffer.length > fileSize THEN callArgs ELSE buffer
        /\ romServer' =
             IF buffer.length > fileSize
             THEN [romServer EXCEPT !.op = "rejected"]
             ELSE [romServer EXCEPT
                     !.romAnalysisResults = <<AnalyzeROM(buffer)>>,
                     !.MEMORY = UpdatedMEMORY(romServer.MEMORY, AnalyzeROM(buffer)),
                     !.op = "analyze-rom"]
        /\ UNCHANGED <<fs, Config, memFlags, sniServer, image, romCall, parsed>>
        /\ UNCHANGED <<resolverVars, battleVars, scoreVars>>

InitAnalysis ==
    /\ InitResolverAtStartup /\ InitBattle /\ InitROMData
    /\ image = BaseImage
    /\ romCall = NoCall
    /\ parsed = [variant |-> "none"]
    /\ callArgs = <<>>
    /\ InitHost

NextAnalysis == AnalyzeRom

SpecAnalysis == InitAnalysis /\ [][NextAnalysis]_vars

---------------------------------------------------------------------------
(* install_rom_upload.py, server/index.js: the SNI connection and the read queue *)

MaxPolls == 3
MaxCloses == 2
MaxQueueTimers == 2

\* What a server step of the ROM-upload server leaves alone.
besideRomServer ==
    <<fs, Config, memFlags, sniServer, image, romCall, parsed, callArgs,
      resolverVars, battleVars, scoreVars>>

\* A response of SNI to a Read command: hex data, or a line that does not
\* start with 0x.  The value of hex data is the in-battle byte for an
\* in-battle read; for a party read it is 1 when parsePokemonData finds a
\* Pokemon in slot 0 and 0 when it returns null.
Messages == [hex : BOOLEAN, value : {0, 1}]

\* The entry readMemory pushes (lines 574-578); the callback is told by kind
\* and by the player bytes its closure holds.
Request(s, kind, address, length, player) ==
    [ id |-> Len(s.accepted) + 1, kind |-> kind, address |-> address,
      length |-> length, player |-> player ]

\* sendCommand (lines 554-566): whether the command is written.
SendCommand(s) == ~(s.sniClient = "null" \/ s.connectionStatus # "connected")

\* The callbacks of checkBattleState and readBattleData called with null
\* (lines 682-689, 708, 711): only the in-battle callback does anything.
CallbackNull(s, request) ==
    LET ran == [s EXCEPT !.invoked = Append(@, request.id)]
    IN  IF request.kind = "inBattle"
        THEN [ran EXCEPT !.observed = "null",
                         !.battleState = <<>>,
                         !.emitted = IF s.battleState # <<>> THEN "null" ELSE @]
        ELSE ran

\* processReadQueue with the guard of line 584 left out.
ProcessReadQueueMutNoGuard(s) ==
    IF s.readQueue = <<>>
    THEN s
    ELSE LET request == Head(s.readQueue)
             taken == [s EXCEPT !.readQueue = Tail(@), !.isProcessingRead = TRUE,
                                !.currentReadCallback = <<request>>]
         IN  IF SendCommand(taken)
             THEN [taken EXCEPT !.wire = Append(@, request.id),
                                !.sent = Append(@, request.id)]
             ELSE [CallbackNull(taken, request) EXCEPT
                        !.currentReadCallback = <<>>,
                        !.isProcessingRead = FALSE,
                        !.queueTimers = @ + 1]

\* processReadQueue (lines 583-603).
ProcessReadQueue(s) ==
    IF s.isProcessingRead \/ s.readQueue = <<>>
    THEN s
    ELSE LET request == Head(s.readQueue)
             taken == [s EXCEPT !.readQueue = Tail(@), !.isProcessingRead = TRUE,
                                !.currentReadCallback = <<request>>]
         IN  IF SendCommand(taken)
             THEN [taken EXCEPT !.wire = Append(@, request.id),
                                !.sent = Append(@, request.id)]
             ELSE [CallbackNull(taken, request) EXCEPT
                        !.currentReadCallback = <<>>,
                        !.isProcessingRead = FALSE,
                        !.queueTimers = @ + 1]

\* readMemory (lines 568-581).
ReadMemory(s, kind, address, length, player) ==
    LET request == Request(s, kind, address, length, player)
    IN  IF s.connectionStatus # "connected"
        THEN CallbackNull(s, request)
        ELSE ProcessReadQueue([s EXCEPT !.readQueue = Append(@, request),
                                        !.accepted = Append(@, request.id)])

\* The callbacks of checkBattleState (lines 680-701) and readBattleData
\* (lines 707-724) called with bytes.
Callback(s, request, value) ==
    LET ran == [s EXCEPT !.invoked = Append(@, request.id)]
    IN  CASE request.kind = "inBattle" ->
                IF value # 0
                THEN ReadMemory([ran EXCEPT !.observed = "nonzero", !.cleared = FALSE],
                                "player", s.MEMORY.PARTY_PLAYER, POKEMON_SIZE * 6, 0)
                ELSE [ran EXCEPT !.observed = "zero",
                                 !.cleared = @ \/ s.battleState # <<>>,
                                 !.battleState = <<>>,
                                 !.emitted = IF s.battleState # <<>> THEN "null" ELSE @]
          [] request.kind = "player" ->
                ReadMemory(ran, "enemy", s.MEMORY.PARTY_ENEMY, POKEMON_SIZE * 6, value)
          [] request.kind = "enemy" ->
                IF request.player = 1 /\ value = 1
                THEN [ran EXCEPT !.battleState = <<"battle">>, !.emitted = "battle"]
                ELSE ran

\* handleReadResponse (lines 605-626).
HandleReadResponse(s, value) ==
    IF s.currentReadCallback = <<>>
    THEN [s EXCEPT !.isProcessingRead = FALSE]
    ELSE [Callback([s EXCEPT !.currentReadCallback = <<>>,
                             !.isProcessingRead = FALSE],
                   s.currentReadCallback[1], value)
            EXCEPT !.queueTimers = @ + 1]

\* handleSNIMessage (lines 537-552).
HandleSNIMessage(s, message) ==
    IF message.hex /\ s.currentReadCallback # <<>>
    THEN HandleReadResponse(s, message.value)
    ELSE s

\* checkBattleState (lines 676-703): both branches read MEMORY.IN_BATTLE.
CheckBattleState(s) == ReadMemory(s, "inBattle", s.MEMORY.IN_BATTLE, 1, 0)

\* A step starts with no battle-update emitted.
Step(s, op) == [s EXCEPT !.emitted = "none", !.op = op]

\* The connect callback of the socket (lines 494-502), startPolling included
\* (lines 764-770).
SocketConnects ==
    /\ romServer.sniClient = "connecting"
    /\ romServer' = [Step(romServer, "connect") EXCEPT
                        !.sniClient = "open",
                        !.connectionStatus = "connected",
                        !.isConnecting = FALSE,
                        !.pollTimers = @ + 1]
    /\ UNCHANGED besideRomServer

\* The socket closes, after an error when the connection was refused (lines
\* 518-534): the commands written to it are lost.
SocketCloses ==
    /\ romServer.sniClient # "null"
    /\ romServer.closes < MaxCloses
    /\ romServer' = [Step(romServer, "close") EXCEPT
                        !.connectionStatus = "disconnected",
                        !.isConnecting = FALSE,
                        !.sniClient = "null",
                        !.reconnectTimer = TRUE,
                        !.wire = <<>>,
                        !.closes = @ + 1]
    /\ UNCHANGED besideRomServer

\* The reconnect timer fires: connectToSNI (lines 473-493).
ReconnectTimer ==
    /\ romServer.reconnectTimer
    /\ ~(romServer.isConnecting
            \/ (romServer.sniClient # "null" /\ romServer.connectionStatus = "connected"))
    /\ romServer' = [Step(romServer, "connectToSNI") EXCEPT
                        !.isConnecting = TRUE,
                        !.reconnectTimer = FALSE,
                        !.sniClient = "connecting"]
    /\ UNCHANGED besideRomServer

\* An interval of startPolling fires (lines 765-769).
PollTick ==
    /\ romServer.pollTimers > 0
    /\ romServer.polls < MaxPolls
    /\ romServer' =
         IF romServer.connectionStatus = "connected"
         THEN CheckBattleState([Step(romServer, "poll") EXCEPT !.polls = @ + 1])
         ELSE Step(romServer, "idle poll")
    /\ UNCHANGED besideRomServer

\* A timeout set by processReadQueue or handleReadResponse fires (lines 601,
\* 625).
QueueTimer ==
    /\ romServer.queueTimers > 0
    /\ romServer' =
         ProcessReadQueue([Step(romServer, "processReadQueue") EXCEPT
                              !.queueTimers = @ - 1])
    /\ UNCHANGED besideRomServer

\* SNI answers the oldest command on the socket; the data handler (lines
\* 504-516) passes the line to handleSNIMessage.
SNIResponds ==
    /\ romServer.wire # <<>>
    /\ romServer.queueTimers < MaxQueueTimers
    /\ \E message \in Messages :
         romServer' =
            HandleSNIMessage([Step(romServer, "message") EXCEPT !.wire = Tail(@)],
                             message)
    /\ UNCHANGED besideRomServer

InitQueue == InitAnalysis

NextQueue ==
    \/ SocketConnects
    \/ SocketCloses
    \/ ReconnectTimer
    \/ PollTick
    \/ QueueTimer
    \/ SNIResponds

SpecQueue == InitQueue /\ [][NextQueue]_vars

\* The timers fire, a connection attempt ends, and SNI answers a command
\* for as long as the socket it was written to stays open.
FairQueue ==
    /\ WF_vars(SocketConnects)
    /\ WF_vars(ReconnectTimer)
    /\ WF_vars(PollTick)
    /\ WF_vars(QueueTimer)
    /\ WF_vars(SNIResponds)

SpecQueueFair == InitQueue /\ [][NextQueue]_vars /\ FairQueue

---------------------------------------------------------------------------
(* update_to_sni.py, server/index.js: the SNI connection and the pending reads *)

\* What a server step of the SNI server leaves alone.
besideSniServer ==
    <<fs, Config, memFlags, romServer, image, romCall, parsed, callArgs,
      resolverVars, battleVars, scoreVars>>

\* sendSNICommand (lines 133-138): whether the command is written.
SendSNICommand(s) == ~(s.sniClient = "null" \/ s.connectionStatus # "connected")

\* readMemory (lines 141-147): the entry is pushed whether or not the
\* command is written.
SniReadMemory(s, kind, enemy) ==
    LET read == [id |-> s.requests + 1, kind |-> kind, enemy |-> enemy]
        pushed == [s EXCEPT !.pendingReads = Append(@, read), !.requests = @ + 1]
    IN  IF SendSNICommand(pushed)
        THEN [pushed EXCEPT !.wire = Append(@, read.id)]
        ELSE pushed

\* The callbacks of checkBattleState (lines 237-250) and readPartyData
\* (lines 255-268); value is the in-battle byte, or whether parsePokemonData
\* finds a Pokemon in the bytes.
SniCallback(s, read, value) ==
    CASE read.kind = "inBattle" ->
            IF value # 0
            THEN SniReadMemory(s, "enemy", 0)
            ELSE [s EXCEPT !.battleState = <<>>]
      [] read.kind = "enemy" -> SniReadMemory(s, "player", value)
      [] read.kind = "player" ->
            IF read.enemy = 1 /\ value = 1
            THEN [s EXCEPT !.battleState = <<"battle">>]
            ELSE s

\* handleReadResponse (lines 154-168) for the response to the command
\* `answers`.
SniHandleReadResponse(s, answers, value) ==
    IF s.pendingReads = <<>>
    THEN s
    ELSE SniCallback([s EXCEPT !.pendingReads = Tail(@),
                               !.delivered = <<[ callback |-> Head(s.pendingReads).id,
                                                 answers |-> answers ]>>],
                     Head(s.pendingReads), value)

\* processMessage (lines 123-130).
ProcessMessage(s, answers, message) ==
    IF message.hex THEN SniHandleReadResponse(s, answers, message.value) ELSE s

\* startBattleMonitoring (lines 225-231): the intervals active afterwards.
StartBattleMonitoring(s) == [s EXCEPT !.monitoringInterval = 1]

\* The connect callback of the socket (lines 77-87).
SniSocketConnects ==
    /\ sniServer.sniClient = "connecting"
    /\ sniServer' = StartBattleMonitoring(
                        [sniServer EXCEPT !.sniClient = "open",
                                          !.connectionStatus = "connected",
                                          !.delivered = <<>>, !.op = "connect"])
    /\ UNCHANGED besideSniServer

\* The socket closes (lines 94-103): the commands written to it are lost.
SniSocketCloses ==
    /\ sniServer.sniClient \in {"connecting", "open"}
    /\ sniServer.closes < MaxCloses
    /\ sniServer' = [sniServer EXCEPT !.sniClient = "closed",
                                      !.connectionStatus = "disconnected",
                                      !.battleState = <<>>,
                                      !.reconnectTimers = @ + 1,
                                      !.wire = <<>>,
                                      !.closes = @ + 1,
                                      !.delivered = <<>>, !.op = "close"]
    /\ UNCHANGED besideSniServer

\* The reconnect timeout fires: connectToSNI (lines 72-76).
SniReconnectTimer ==
    /\ sniServer.reconnectTimers > 0
    /\ sniServer' = [sniServer EXCEPT !.reconnectTimers = @ - 1,
                                      !.sniClient = "connecting",
                                      !.delivered = <<>>, !.op = "connectToSNI"]
    /\ UNCHANGED besideSniServer

\* The monitoring interval fires: checkBattleState (lines 233-251).
SniPollTick ==
    /\ sniServer.monitoringInterval > 0
    /\ sniServer.requests + 3 <= 3 * MaxPolls
    /\ sniServer' =
         IF sniServer.connectionStatus # "connected"
         THEN [sniServer EXCEPT !.delivered = <<>>, !.op = "idle poll"]
         ELSE SniReadMemory([sniServer EXCEPT !.delivered = <<>>, !.op = "poll"],
                            "inBattle", 0)
    /\ UNCHANGED besideSniServer

\* SNI answers the oldest command on the socket with hex data; the data
\* handler (lines 89-92) and processMessages (lines 111-120) pass the line
\* to processMessage.
SniResponds ==
    /\ sniServer.wire # <<>>
    /\ \E message \in {m \in Messages : m.hex} :
         sniServer' =
            ProcessMessage([sniServer EXCEPT !.wire = Tail(@), !.delivered = <<>>,
                                             !.op = "message"],
                           Head(sniServer.wire), message)
    /\ UNCHANGED besideSniServer

InitSni == InitAnalysis

NextSni ==
    \/ SniSocketConnects
    \/ SniSocketCloses
    \/ SniReconnectTimer
    \/ SniPollTick
    \/ SniResponds

SpecSni == InitSni /\ [][NextSni]_vars

---------------------------------------------------------------------------
(* Claims about the resolver *)

InRange(v) == EWRAM_START <= v /\ v < EWRAM_END

\* C1 as stated: after ANY successful call of a symbol at tick t0 (no
\* clearCache since), a call of that symbol at a tick t with t - t0 < 300
\* returns the same addresses and reads nothing.
C1_AfterAnySuccessWithinTTL ==
    [][\A s \in Symbols :
        (lastOp' = Getter[s] /\ succeeded[s].at >= 0
            /\ frame' - succeeded[s].at < CACHE_LIFETIME)
        => (ret'.kind = "obj" /\ heap'[ret'.val] = succeeded[s].struct
            /\ readLog' = <<>>)]_vars

\* C1 amended: after a call that resolved the symbol afresh at tick t0 (no
\* clearCache since), every call of that symbol at a tick t with t - t0 < 300
\* returns a structure with the same addresses and performs no Memory read,
\* whatever calls for the other symbol are interleaved.
C1_AfterResolutionWithinTTL ==
    [][\A s \in Symbols :
        (lastOp' = Getter[s] /\ resolved[s].at >= 0
            /\ frame' - resolved[s].at < CACHE_LIFETIME)
        => (ret'.kind = "obj" /\ heap'[ret'.val] = resolved[s].struct
            /\ readLog' = <<>>)]_vars

\* C1 witness: getSaveBlock1 answered from the cache on the last tick of the
\* lifetime of its entry, gSaveBlock2 having been resolved in between.
C1_Witness ==
    /\ lastOp = "getSaveBlock1" /\ ret.kind = "obj" /\ readLog = <<>>
    /\ resolved.gSaveBlock1.at >= 0
    /\ frame = resolved.gSaveBlock1.at + CACHE_LIFETIME - 1
    /\ resolved.gSaveBlock2.at > resolved.gSaveBlock1.at

\* C2: a call made 300 or more ticks after the symbol's own last successful
\* resolution does not return the cached structure: it re-resolves with
\* exactly one read of the symbol's anchor.
C2_ExpiredEntryIsReResolved ==
    [][\A s \in Symbols :
        (lastOp' = Getter[s] /\ resolved[s].at >= 0
            /\ frame' - resolved[s].at >= CACHE_LIFETIME)
        => readLog' = <<addresses[s]>>]_vars

\* C6: readPointer returns a failure or a value in [0x02000000, 0x02040000),
\* for every known name and every value read, and no structure returned by
\* getSaveBlock1/getSaveBlock2 has a base pointer outside that interval.
C6_PointerInRange ==
    /\ \A name \in DOMAIN addresses, p \in PointerReads :
        LET r == ReadPointer(name, p) IN
        r.kind = "nil" \/ (r.kind = "ptr" /\ InRange(r.val))
    /\ lastOp = "readPointer" => (ret.kind = "nil" \/ (ret.kind = "ptr" /\ InRange(ret.val)))
    /\ ret.kind = "obj" => InRange(heap[ret.val].pointer)
    /\ \A e \in {cache.saveBlock1, cache.saveBlock2} \ {NilRef} :
        InRange(heap[e].pointer)

\* C6 witness: a structure was returned whose base is the last address of the
\* interval, resolved by a read in this very call.
C6_Witness ==
    /\ lastOp = "getSaveBlock2" /\ ret.kind = "obj"
    /\ readLog = <<addresses.gSaveBlock2>>
    /\ heap[ret.val].pointer = EWRAM_END - 1

\* C7: a getSaveBlock1/getSaveBlock2 call that fails (the anchor read failed
\* or gave a value outside the interval) leaves both cache entries, the
\* tables they refer to and the timestamp as they were, and every structure
\* returned is built from an accepted value.
C7_FailureLeavesCache ==
    [][\A s \in Symbols :
        /\ (lastOp' = Getter[s] /\ ret'.kind = "nil")
            => /\ cache' = cache
               /\ \A e \in {cache.saveBlock1, cache.saveBlock2} \ {NilRef} :
                    heap'[e] = heap[e]
        /\ (lastOp' = Getter[s] /\ ret'.kind = "obj")
            => /\ InRange(heap'[ret'.val].pointer)
               /\ heap'[ret'.val].pointer = resolved'[s].struct.pointer]_vars

\* C7 witness: getSaveBlock1 failed on an out-of-range value while an
\* (expired) entry and the other symbol's entry were cached.
C7_Witness ==
    /\ lastOp = "getSaveBlock1" /\ ret.kind = "nil"
    /\ ret.err = "Invalid pointer value"
    /\ cache.saveBlock1 # NilRef /\ cache.saveBlock2 # NilRef

\* C8: after clearCache the next getSaveBlock1 and the next getSaveBlock2
\* call each read the symbol's anchor, at whatever tick.
C8_FreshReadAfterClear ==
    [][\A s \in Symbols :
        (lastOp' = Getter[s] /\ s \in cleared) => readLog' = <<addresses[s]>>]_vars

\* C8 witness: after a clearCache, getSaveBlock2 read its anchor and
\* resolved at a tick below 300; getSaveBlock1 has not been called since.
C8_Witness ==
    /\ cleared = {"gSaveBlock1"}
    /\ lastOp = "getSaveBlock2" /\ ret.kind = "obj"
    /\ readLog = <<addresses.gSaveBlock2>>
    /\ frame < CACHE_LIFETIME

\* C9: a consumer changing a field of a structure it received does not
\* change what a later call within the lifetime returns: the structure
\* returned has the addresses of the resolution.
C9_ReturnedStructureIsACopy ==
    [][\A s \in Symbols :
        (lastOp' = Getter[s] /\ resolved[s].at >= 0
            /\ frame' - resolved[s].at < CACHE_LIFETIME)
        => (ret'.kind = "obj" /\ heap'[ret'.val] = resolved[s].struct)]_vars

\* The structure holds base + offset for every name of `offsets`.
HasEveryOffset(struct, offsets) ==
    \A n \in DOMAIN offsets :
        /\ n \in DOMAIN struct
        /\ struct[n] = struct.pointer + offsets[n]

\* C22: the structure a successful getSaveBlock1 returns holds base + offset
\* for every name of saveBlock1Offsets, and the structure a successful
\* getSaveBlock2 returns does so for every name of saveBlock2Offsets.
C22_StructureHasEveryOffset ==
    /\ (lastOp = "getSaveBlock1" /\ ret.kind = "obj")
        => HasEveryOffset(heap[ret.val], saveBlock1Offsets)
    /\ (lastOp = "getSaveBlock2" /\ ret.kind = "obj")
        => HasEveryOffset(heap[ret.val], saveBlock2Offsets)

---------------------------------------------------------------------------
(* Claims about the battle check *)

\* The degraded-connectivity signal as checkBattle could surface it: in what
\* it returns to update() or in what it displays.
DegradedSignalRaised ==
    checkRet = "DegradedConnectivity" \/ console = "DegradedConnectivity"

\* C3: between consecutive checks whose reads succeeded, the battle is
\* entered (State.currentBattle set, the encounter announced) exactly when
\* the flag went from 0 to non-zero, cleared exactly when it went back to 0,
\* and otherwise the check changes nothing, whatever the decoded record.
C3_EventsFollowFlag ==
    (prevStatus \in {"zero", "nonzero"} /\ curStatus \in {"zero", "nonzero"}
        /\ ~pollFailed)
    => /\ (prevStatus = "zero" /\ curStatus = "nonzero")
            => (event = "Entered" /\ console # "none")
       /\ (prevStatus = "nonzero" /\ curStatus = "zero") => event = "Cleared"
       /\ prevStatus = curStatus => event = "Unchanged"

\* C4: a check in which a Memory read failed is treated as Unchanged:
\* State.currentBattle keeps its value and the battle is not declared over.
C4_ReadFailureIsUnchanged ==
    (lastOp = "checkBattle" /\ pollFailed) => event = "Unchanged"

\* C5: the degraded-connectivity signal is raised exactly when three or
\* more consecutive checks had a read failure (a successful read resets the
\* count and so clears the signal).
C5_DegradedAfterThreeFailures ==
    DegradedSignalRaised <=> consecFail >= 3

---------------------------------------------------------------------------
(* Claims about the tier rating *)

\* A type with no weakness, resistance or immunity in the loaded chart.
NeutralTyping(pokemon) ==
    LET n == TypeCounts(romData.typeChart, pokemon.type1, pokemon.type2) IN
    n.weaknesses = 0 /\ n.resistances = 0 /\ n.immunities = 0

\* C10: a species entry with base stat total 600 or more, HP 255, Speed 200,
\* Defense + SpDefense = 400 and a neutral typing is rated score 100, tier S.
C10_PerfectRecordScores100 ==
    (HasPokemon(rating.id)
        /\ romData.pokemon[rating.id].bst >= 600
        /\ romData.pokemon[rating.id].stats.hp = 255
        /\ romData.pokemon[rating.id].stats.speed = 200
        /\ romData.pokemon[rating.id].stats.defense
            + romData.pokemon[rating.id].stats.spDefense = 400
        /\ NeutralTyping(romData.pokemon[rating.id]))
    => (rating.result.score = 100 /\ rating.result.tier = "S")

\* C11: the score of every rated species entry is between 0 and 100.
C11_ScoreWithinRange ==
    HasPokemon(rating.id) => (rating.result.score >= 0 /\ rating.result.score <= 100)

\* C12: the tier and the stars of a rating are those of the thresholds
\* 90, 75, 60, 45 applied to the score it reports.
C12_TierFollowsReportedScore ==
    HasPokemon(rating.id) =>
        LET score == rating.result.score
            tier == rating.result.tier
            stars == rating.result.stars
        IN  /\ (tier = "S") <=> (score >= 90)
            /\ (tier = "A") <=> (75 <= score /\ score < 90)
            /\ (tier = "B") <=> (60 <= score /\ score < 75)
            /\ (tier = "C") <=> (45 <= score /\ score < 60)
            /\ (tier = "D") <=> (score < 45)
            /\ stars = (CASE tier = "S" -> 5 [] tier = "A" -> 4 [] tier = "B" -> 3
                          [] tier = "C" -> 2 [] tier = "D" -> 1)

\* C12 witness: an entry rated just under a threshold, its total being
\* more than 59.5 and less than 60: score 59, tier C, two stars.
C12_Witness ==
    /\ HasPokemon(rating.id)
    /\ rating.result.score = 59 /\ rating.result.tier = "C"
    /\ rating.result.stars = 2
    /\ 2 * TotalScore6800(romData.pokemon[rating.id]) > 119 * 6800

---------------------------------------------------------------------------
(* Claims about the reference store *)

Tables == DOMAIN TableRegions

\* C13: on an initialized store every init and every getter call reads
\* nothing and leaves the tables and the patch metadata as they were.
C13_InitializedStoreReadsNothing ==
    [][romData.initialized =>
        (romCall'.reads = <<>> /\ ~romCall'.raised /\ romData' = romData)]_vars

\* C13 witness: init was called on a store already initialized, over an
\* image with a patch signature, and read nothing.
C13_Witness ==
    /\ romData.initialized /\ romData.patchInfo = "Archipelago"
    /\ romCall.op = "init" /\ romCall.reads = <<>> /\ romCall.result = Text("true")

\* C14: init over an image with an unreadable region completes with the
\* store initialized, the table of that region empty and every other table
\* loaded.
C14_UnreadableTableLeftEmpty ==
    (romCall.op = "init" /\ image.unreadable # {}) =>
        /\ ~romCall.raised
        /\ romData.initialized
        /\ \A t \in Tables :
            (romData[t] = <<>>) <=> Raises(image, t)

\* The multipliers of the game: no effect, half, normal, double (times 10).
Multipliers == {0, 5, 10, 20}

\* C18: every multiplier the loaded type chart stores, and every result of
\* getTypeEffectiveness for a pair the chart has an entry for, is one of
\* 0, 5, 10, 20.
C18_StoredMultipliersAreKnown ==
    /\ \A p \in DOMAIN romData.typeChart : romData.typeChart[p] \in Multipliers
    /\ (romCall.op = "getTypeEffectiveness" /\ ~romCall.raised
            /\ <<romCall.arg[1], romCall.arg[2]>> \in DOMAIN romData.typeChart)
        => romCall.result.number \in Multipliers

\* The records of a stream before its first sentinel record.
RECURSIVE BeforeSentinel(_)
BeforeSentinel(stream) ==
    IF stream = <<>> THEN <<>>
    ELSE IF Head(stream)[1] = CHART_SENTINEL /\ Head(stream)[2] = CHART_SENTINEL
         THEN <<>>
         ELSE <<Head(stream)>> \o BeforeSentinel(Tail(stream))

\* The places of the records for the pair (a, d) among them.
RecordsFor(stream, a, d) ==
    {k \in 1..Len(BeforeSentinel(stream)) : stream[k][1] = a /\ stream[k][2] = d}

\* The multiplier of the last record for (a, d); 10 when there is none.
LastMultiplier(stream, a, d) ==
    LET ks == RecordsFor(stream, a, d) IN
    IF ks = {} THEN 10
    ELSE stream[CHOOSE k \in ks : \A j \in ks : j <= k][3]

\* C19: over an image whose regions are readable and whose chart has a
\* sentinel record, getTypeEffectiveness(a, d) returns 10 when no record
\* before the sentinel is for (a, d), and the multiplier of the last such
\* record otherwise.
C19_LastRecordBeforeSentinelWins ==
    (romCall.op = "getTypeEffectiveness" /\ image.unreadable = {}
        /\ HasSentinel(image)) =>
        /\ ~romCall.raised
        /\ romCall.result
              = Number(LastMultiplier(image.chart, romCall.arg[1], romCall.arg[2]))

\* C19 witness: the stream holds two records for (0, 0), the last one with
\* multiplier 0, and getTypeEffectiveness(0, 0) returned 0.
C19_Witness ==
    /\ romCall.op = "getTypeEffectiveness" /\ romCall.arg = <<0, 0>>
    /\ image.chart = << <<0, 0, 40>>, <<0, 0, 0>> >>
    /\ romCall.result = Number(0)

\* The ids a table has an entry for.
InTable(t, id) == 0 <= id /\ id <= LastOf[t]

\* C20: on a loaded store a getter called with an id outside its table
\* returns nil, and calculateRandomizerTier called with a species outside
\* the table returns no rating; neither raises nor reads memory.
C20_OutsideIdIsAbsent ==
    [][romData.initialized =>
        /\ \A t \in DOMAIN Getters :
            (romCall'.op = Getters[t] /\ ~InTable(t, romCall'.arg[1])) =>
                (romCall'.result = NilEntry /\ ~romCall'.raised
                    /\ romCall'.reads = <<>>)
        /\ (romCall'.op = "calculateRandomizerTier"
                /\ ~InTable("pokemon", romCall'.arg[1])) =>
                (rating'.result = [tier |-> "none"] /\ ~romCall'.raised
                    /\ romCall'.reads = <<>>)]_vars

\* C20 witness: on a loaded store getPokemon(411) returned nil and read
\* nothing.
C20_Witness ==
    /\ romData.initialized
    /\ romCall.op = "getPokemon" /\ romCall.arg = <<LastSpeciesId + 1>>
    /\ romCall.result = NilEntry /\ romCall.reads = <<>>

\* The image with nothing at the three patch places.
Unpatched(img) == [img EXCEPT !.patch = [p \in {1, 2, 3} |-> "FF"]]

\* What the last getter call returns on the store loaded from `img`.
SameCallOver(img) ==
    LET ref == ROMInit(NoTables, img).data IN
    IF romCall.op = "getTypeEffectiveness"
    THEN Number(GetTypeEffectiveness(ref, img, romCall.arg[1], romCall.arg[2]).result)
    ELSE LET t == CHOOSE x \in DOMAIN Getters : Getters[x] = romCall.op
         IN  ROMGet(ref, img, t, romCall.arg[1]).result

MultiplierOf(chart, a, t) == IF <<a, t>> \in DOMAIN chart THEN chart[<<a, t>>] ELSE 10

\* Ten times the combined multiplier: m1 * m2 / 10 for two different types,
\* m1 for one type.
Combined10(chart, a, t1, t2) ==
    IF t1 = t2 THEN MultiplierOf(chart, a, t1) * 10
    ELSE MultiplierOf(chart, a, t1) * MultiplierOf(chart, a, t2)

ClassOf(chart, a, t1, t2) ==
    LET c == Combined10(chart, a, t1, t2) IN
    IF c > 100 THEN "weakness"
    ELSE IF c = 0 THEN "immunity"
    ELSE IF c < 100 THEN "resistance"
    ELSE "none"

CountOf(chart, t1, t2, class) ==
    Cardinality({a \in 0..17 : ClassOf(chart, a, t1, t2) = class})

\* C25: on a loaded store calculateTypeDefensiveScore counts each attacking
\* type 0..17 once, by its combined multiplier against the two defending
\* types, and returns 0.5 + 0.05 per resistance + 0.10 per immunity - 0.08
\* per weakness, clamped to [0, 1] (here times 100).
C25_DefensiveScoreFollowsTheCounts ==
    (romCall.op = "calculateTypeDefensiveScore" /\ romData.initialized) =>
        LET t1 == romCall.arg[1]
            t2 == romCall.arg[2]
            n(class) == CountOf(romData.typeChart, t1, t2, class)
            sum == 50 + 5 * n("resistance") + 10 * n("immunity") - 8 * n("weakness")
        IN  /\ n("weakness") + n("resistance") + n("immunity") + n("none") = 18
            /\ romCall.result
                  = Number(IF sum > 100 THEN 100 ELSE IF sum < 0 THEN 0 ELSE sum)

\* C25 witness: the score of Normal/Flying over the chart that holds, for
\* these two types, one resistance (5 and 5), one immunity (0 and 20) and
\* two weaknesses (20 and 20, none and 40): 50 + 5 + 10 - 16 = 49.
C25_Witness ==
    /\ romCall.op = "calculateTypeDefensiveScore" /\ romCall.arg = <<0, 2>>
    /\ <<5, 2>> \in DOMAIN romData.typeChart /\ romData.typeChart[<<5, 2>>] = 40
    /\ romCall.result = Number(49)

\* The sum of the six base stats of a species entry.
StatSum(stats) ==
    stats.hp + stats.attack + stats.defense + stats.speed + stats.spAttack
        + stats.spDefense

\* C24: the bst of every loaded species entry is the sum of its six base
\* stats, hence between 0 and 1530; stats 45, 49, 49, 45, 65, 65 give 318.
C24_BstIsTheSumOfTheStats ==
    \A i \in DOMAIN romData.pokemon :
        LET e == romData.pokemon[i] IN
        /\ e.bst = StatSum(e.stats)
        /\ 0 <= e.bst /\ e.bst <= 1530
        /\ e.stats = [hp |-> 45, attack |-> 49, defense |-> 49, speed |-> 45,
                      spAttack |-> 65, spDefense |-> 65] => e.bst = 318

\* C24 witness: the loaded store holds an entry with stats 45, 49, 49, 45,
\* 65, 65 and bst 318.
C24_Witness ==
    /\ romData.initialized
    /\ \E i \in DOMAIN romData.pokemon :
            /\ romData.pokemon[i].stats
                  = [hp |-> 45, attack |-> 49, defense |-> 49, speed |-> 45,
                     spAttack |-> 65, spDefense |-> 65]
            /\ romData.pokemon[i].bst = 318

\* C23: calculateRandomizerTier reads no memory and leaves the store as it
\* was in every state it is called in, and on the same tables the same
\* species id gets the same rating.
C23_RatingReadsNothing ==
    [][romCall'.op = "calculateRandomizerTier" =>
        /\ romCall'.reads = <<>>
        /\ romData' = romData
        /\ ~romCall'.raised => (romCall.result = CalculateRandomizerTier(romCall.arg[1]))']_vars

\* The store holds the chart of the image: a call has loaded it and returned.
ChartLoaded == romData.initialized /\ Readable(image, "typeEffectiveness")

\* The pairs with a record before the first sentinel record.
PairsBeforeSentinel(stream) ==
    {<<stream[k][1], stream[k][2]>> : k \in 1..Len(BeforeSentinel(stream))}

\* C26 as stated: after loadTypeChart every record before the first sentinel
\* record is in the table with its multiplier, the sentinel record is not
\* stored, and the load read no record after the sentinel record.
C26_EveryEarlierRecordIsInTheTable ==
    ChartLoaded =>
        /\ \A k \in 1..Len(BeforeSentinel(image.chart)) :
              /\ <<image.chart[k][1], image.chart[k][2]>> \in DOMAIN romData.typeChart
              /\ romData.typeChart[<<image.chart[k][1], image.chart[k][2]>>]
                    = image.chart[k][3]
        /\ <<CHART_SENTINEL, CHART_SENTINEL>> \notin DOMAIN romData.typeChart
        /\ romCall.chartRead > 0
              => romCall.chartRead = Len(BeforeSentinel(image.chart)) + 1

\* C26 amended: after loadTypeChart the table has an entry exactly for the
\* pairs with a record before the first sentinel record, each holding the
\* multiplier of the last such record; the sentinel record is not stored and
\* the load read no record after the sentinel record.
C26_TableIsTheRecordsBeforeSentinel ==
    ChartLoaded =>
        /\ DOMAIN romData.typeChart = PairsBeforeSentinel(image.chart)
        /\ \A p \in DOMAIN romData.typeChart :
              romData.typeChart[p] = LastMultiplier(image.chart, p[1], p[2])
        /\ <<CHART_SENTINEL, CHART_SENTINEL>> \notin DOMAIN romData.typeChart
        /\ romCall.chartRead > 0
              => romCall.chartRead = Len(BeforeSentinel(image.chart)) + 1

\* C26 witness: the chart starts with the sentinel record and a record for
\* (0, 0) follows it; init read one record and the table is empty.
C26_Witness ==
    /\ romCall.op = "init" /\ romCall.result = Text("true")
    /\ image.chart = << <<CHART_SENTINEL, CHART_SENTINEL, 0>>, <<0, 0, 40>> >>
    /\ romCall.chartRead = 1
    /\ DOMAIN romData.typeChart = {}

\* C29: for a flag value f other than 0 getBattleState reports a battle
\* whose isWildBattle, isDoubleBattle and isTrainerBattle are the bits 0x01,
\* 0x02 and 0x08 of f, each whatever the other bits are; for f = 0 it reports
\* no battle.
C29_FlagsDecodedBitByBit ==
    (romCall.op = "getBattleState" /\ romCall.arg[1] # ReadFail) =>
        LET f == romCall.arg[1]
            r == romCall.result
        IN  IF f = 0 THEN r = NoBattleState
            ELSE /\ r.inBattle
                 /\ r.isWildBattle <=> f % 2 >= 1
                 /\ r.isDoubleBattle <=> f % 4 >= 2
                 /\ r.isTrainerBattle <=> f % 16 >= 8

\* C29 witness: the flags are 0x0B and the state reported is wild, double
\* and trainer at once.
C29_Witness ==
    /\ romCall.op = "getBattleState" /\ romCall.arg = <<11>>
    /\ romCall.result.isWildBattle
    /\ romCall.result.isDoubleBattle
    /\ romCall.result.isTrainerBattle

\* C30: with the battle display on and no forced refresh, a turn of the
\* loop runs the battle check exactly when the new frame count is a multiple
\* of 10, quickUpdate once when it is a multiple of 30 and not otherwise, and
\* the full refresh exactly when it is a multiple of 300.
C30_RefreshesRunOnTheirFrames ==
    [][State'.frameCount # State.frameCount =>
        LET frameCount == State'.frameCount IN
        /\ (State'.lastBattleCheck = frameCount) <=> (frameCount % battleCheckInterval = 0)
        /\ quickRuns' = (IF frameCount % updateInterval = 0 THEN 1 ELSE 0)
        /\ (State'.lastFullUpdate = frameCount) <=> (frameCount % fullUpdateInterval = 0)]_vars

\* The offset of the first terminator among the first n bytes; n when
\* there is none.
FirstTerminator(bytes, n) ==
    IF \E k \in 0..(n - 1) : bytes[k + 1] = STRING_TERMINATOR
    THEN CHOOSE k \in 0..(n - 1) :
            /\ bytes[k + 1] = STRING_TERMINATOR
            /\ \A j \in 0..(k - 1) : bytes[j + 1] # STRING_TERMINATOR
    ELSE n

\* The characters of the bytes at the offsets 0..(n - 1), in order.
RECURSIVE Decoded(_, _)
Decoded(bytes, n) ==
    IF n = 0 THEN <<>> ELSE Decoded(bytes, n - 1) \o CharsOf(bytes[n])

\* C28: readPokemonString(addr, maxLength) reads the offsets 0, 1, 2, ... in
\* order, none above the first 0xFF and none at or above maxLength; when it
\* returns it has read up to the first 0xFF or maxLength bytes, whichever
\* comes first, and the string is made of the bytes before that place only.
C28_StopsAtTerminatorOrMaxLength ==
    romCall.op = "readPokemonString" =>
        LET bytes == romCall.arg[1]
            maxLength == romCall.arg[2]
            stop == FirstTerminator(bytes, maxLength)
        IN  /\ \A k \in DOMAIN romCall.reads : romCall.reads[k] = k - 1
            /\ \A k \in DOMAIN romCall.reads :
                  romCall.reads[k] < maxLength /\ romCall.reads[k] <= stop
            /\ ~romCall.raised =>
                  /\ Len(romCall.reads) = (IF stop < maxLength THEN stop + 1 ELSE maxLength)
                  /\ romCall.result = Chars(Decoded(bytes, stop))

\* C28 witness: the bytes are "A", 0xFF, "A", "A" and three are asked for:
\* the offsets 0 and 1 are read and the string is "A".
C28_Witness ==
    /\ romCall.op = "readPokemonString"
    /\ romCall.arg = << <<187, STRING_TERMINATOR, 187, 187>>, 3 >>
    /\ romCall.reads = <<0, 1>>
    /\ romCall.result = Chars(<<"A">>)

\* C27: over an image whose regions and whose bytes after the chart are
\* readable, no call stays in ROMData.init: every load returns.
C27_InitTerminates ==
    (image.unreadable = {} /\ image.tail # "nil") => ~romCall.diverged

---------------------------------------------------------------------------
(* Claims about the refresh *)

\* C15: a fullUpdate in which getPlayerInfo could not resolve SaveBlock1
\* (its anchor read failed or was rejected, so that the party read that
\* follows reads the anchor again) leaves the player info obtained before
\* in State.playerInfo.
C15_FailedRefreshKeepsPlayerInfo ==
    [][(lastOp' = "fullUpdate" /\ Len(readLog') = 2 /\ State.playerInfo # "nil")
        => State'.playerInfo = State.playerInfo]_vars

---------------------------------------------------------------------------
(* Claims about the address functions *)

ValidPartySlot(slot) == 0 <= slot /\ slot <= 5
ValidBox(box) == 0 <= box /\ box <= 13
ValidBoxSlot(slot) == 0 <= slot /\ slot <= 29

\* C16: getPartyPokemonAddress with a slot outside 0..5 and getPCBoxAddress
\* with a box outside 0..13 or a slot outside 0..29 return a failure, read
\* nothing and leave the cache and its tables as they were.
C16_InvalidIndexReadsNothing ==
    [][( \/ (lastOp' = "getPartyPokemonAddress" /\ ~ValidPartySlot(callArgs'[1]))
         \/ (lastOp' = "getPCBoxAddress"
                /\ (~ValidBox(callArgs'[1]) \/ ~ValidBoxSlot(callArgs'[2]))) )
        => /\ ret'.kind = "nil"
           /\ readLog' = <<>>
           /\ cache' = cache
           /\ \A e \in {cache.saveBlock1, cache.saveBlock2} \ {NilRef} :
                heap'[e] = heap[e]]_vars

\* C16 witness: getPCBoxAddress(0, 30) failed while the cached SaveBlock1
\* entry had expired.
C16_Witness ==
    /\ lastOp = "getPCBoxAddress" /\ callArgs = <<0, 30>>
    /\ ret.kind = "nil" /\ readLog = <<>>
    /\ cache.saveBlock1 # NilRef
    /\ frame - cache.lastCacheTime >= CACHE_LIFETIME

\* C39: every address handed to a consumer lies in [EWRAM_START, EWRAM_END):
\* each field of a cached structure, and each address returned by
\* getPartyPokemonAddress and getPCBoxAddress.
C39_EveryAddressInRange ==
    /\ \A e \in {cache.saveBlock1, cache.saveBlock2} \ {NilRef} :
            \A field \in DOMAIN heap[e] : InRange(heap[e][field])
    /\ (lastOp \in {"getPartyPokemonAddress", "getPCBoxAddress"} /\ ret.kind = "ptr")
            => InRange(ret.val)

\* C36: once the battle flags have been zero for a full battle-check period,
\* State.currentBattle is nil (so quickUpdate displays the party), whatever
\* presses of key B were made.
C36_BattleClearedWithinAPeriod ==
    (memFlags.value = <<0>>
        /\ State.frameCount - memFlags.since >= battleCheckInterval)
        => State.currentBattle = NoPokemon

\* C37: when fix_lua_file modifies a file, the .lua.backup file it writes
\* holds the content the file had before the call.
C37_BackupHoldsTheOriginal ==
    [][(fs'.op = "fix_lua_file" /\ fs'.dir[fs'.arg] # fs.dir[fs'.arg])
        => fs'.dir[BackupName[fs'.arg]] = fs.dir[fs'.arg]]_vars

\* C38: running the rollback script right after a deployment over a
\* directory that held .lua files leaves exactly the .lua files the
\* directory held before the deployment, with their contents.
C38_RollbackRestoresTheDirectory ==
    [][(fs'.op = "rollback" /\ fs.op = "deploy_updates" /\ fs.before # <<>>)
        => LuaFiles(fs'.dir) = fs.before]_vars

---------------------------------------------------------------------------
(* Claims about the servers *)

\* The species field of the slot the last call parsed.
ParsedSpecies == Word(parsed.bytes, parsed.slot * POKEMON_SIZE + POKEMON_OFFSETS.species)

SlotInBuffer ==
    /\ parsed.variant # "none"
    /\ (parsed.slot + 1) * POKEMON_SIZE <= Length(parsed.bytes)

\* C17: in both servers parsePokemonData returns null when the species
\* field of the slot is 0 or above 411, and a record for every species from
\* 1 to 411.
C17_SpeciesOutsideRangeIsAbsent ==
    SlotInBuffer =>
        ((ParsedSpecies = 0 \/ ParsedSpecies > 411) <=> parsed.result.kind = "null")

---------------------------------------------------------------------------
(* Claims about the servers' ROM analysis and read queues *)

\* C40: for every uploaded buffer within the 32 MB limit checkDMAProtection
\* reports disabled = false, and after any sequence of /api/analyze-rom
\* requests MEMORY.IN_BATTLE, MEMORY.PARTY_PLAYER and MEMORY.PARTY_ENEMY
\* hold their initial values.
C40_AnalysisNeverMovesTheAddresses ==
    /\ \A n \in DOMAIN romServer.romAnalysisResults :
            romServer.romAnalysisResults[n].dmaStatus.disabled = FALSE
    /\ romServer.MEMORY.IN_BATTLE = InitMEMORY.IN_BATTLE
    /\ romServer.MEMORY.PARTY_PLAYER = InitMEMORY.PARTY_PLAYER
    /\ romServer.MEMORY.PARTY_ENEMY = InitMEMORY.PARTY_ENEMY

\* An upload of the full 32 MB whose pointer table holds a custom party
\* address and whose DMA routine is patched out has been analysed.
C40_Witness ==
    /\ romServer.op = "analyze-rom"
    /\ callArgs.length = fileSize
    /\ callArgs.patch = dmaPatterns.disabled[1]
    /\ callArgs.fill = 0
    /\ callArgs.table[2] = callArgs.table[1] + 1216
    /\ romServer.romAnalysisResults[1].memoryAddresses.partyPokemon = callArgs.table[1]

\* C35: at most one Read command is outstanding on the SNI socket: while a
\* command is outstanding isProcessingRead is true and currentReadCallback
\* is the request it was sent for, isProcessingRead is true exactly when
\* currentReadCallback is set, the requests are sent in the order readMemory
\* accepted them, and no request's callback is invoked more than once.
C35_OneReadOutstanding ==
    /\ Len(romServer.wire) <= 1
    /\ romServer.wire # <<>> =>
            /\ romServer.currentReadCallback # <<>>
            /\ romServer.currentReadCallback[1].id = romServer.wire[1]
    /\ romServer.isProcessingRead <=> romServer.currentReadCallback # <<>>
    /\ \A i, j \in DOMAIN romServer.sent :
            i < j => romServer.sent[i] < romServer.sent[j]
    /\ \A i \in DOMAIN romServer.sent :
            romServer.accepted[romServer.sent[i]] = romServer.sent[i]
    /\ \A i, j \in DOMAIN romServer.invoked :
            i # j => romServer.invoked[i] # romServer.invoked[j]

\* A second poll was accepted while the first read was outstanding, and its
\* command has been sent after the first was answered and its nested party
\* read queued behind it.
C35_Witness ==
    /\ Len(romServer.accepted) >= 3
    /\ Len(romServer.sent) >= 2
    /\ Len(romServer.invoked) >= 1
    /\ romServer.wire # <<>>
    /\ romServer.readQueue # <<>>

\* C34: in each of the two servers at most one battle-polling interval
\* timer is active, whatever connects, closes and reconnects have happened.
C34_AtMostOnePollingTimer ==
    /\ romServer.pollTimers <= 1
    /\ sniServer.monitoringInterval <= 1

\* C33: once an in-battle callback has been given a byte of 0 and has set
\* battleState to null, battleState is null and the step has emitted no
\* non-null battle-update, until an in-battle callback is given a non-zero
\* byte.
C33_ClearedStaysCleared ==
    romServer.cleared =>
        /\ romServer.battleState = <<>>
        /\ romServer.emitted # "battle"

\* C31: every request readMemory has queued has its callback invoked in the
\* end.
C31_EveryAcceptedReadIsAnswered ==
    \A id \in 1..(3 * MaxPolls) :
        (id \in DOMAIN romServer.accepted)
            ~> (\E n \in DOMAIN romServer.invoked : romServer.invoked[n] = id)

\* C32: a hex response is handed to the callback of the read request that
\* produced it: the head of pendingReads, when a response arrives, is the
\* request the response answers.
C32_ResponseGoesToItsRequest ==
    \A n \in DOMAIN sniServer.delivered :
        sniServer.delivered[n].callback = sniServer.delivered[n].answers

=============================================================================
